---- MODULE Spec2Model ----
(***************************************************************************)
(* A model of the AURA content script: the AccessibilityObserver (mutation *)
(* filtering, debouncing, batching), the TransformationEngine (per         *)
(* (element, type) remediation), the DOMScanner (issue list, dedup, sort)  *)
(* and the AURA coordinator that wires them.                               *)
(***************************************************************************)
EXTENDS Integers, Sequences, FiniteSets, TLC

VARIABLES
  \* ---- AccessibilityObserver fields (observer/AccessibilityObserver.ts:7-19)
  observer,            \* this.observer: "null" or "MutationObserver"
  isObserving,         \* this.isObserving
  mutationQueue,       \* this.mutationQueue
  processingTimeout,   \* this.processingTimeout: "null" or "timer"
  processingElements,  \* this.processingElements
  recentlyProcessed,   \* this.recentlyProcessed
  \* ---- host side of the observer
  observed,            \* options document.body is observed with, or NotObserved
  debounce,            \* ms left on the pending debounce setTimeout, -1: none
  frames,              \* batches waiting for their requestAnimationFrame
  decayTimers,         \* per pending recentlyProcessed reset: ms left, nodes promoted
  passes,              \* onDOMChange invocations suspended on an await, their batch
  \* ---- history of the observer run
  sinceAccept,         \* ms since handleMutations last accepted a record
  accepted,            \* records accepted since the last flush or stop
  flushedAccepted,     \* `accepted` at each flush still waiting for its frame
  lastFlushGap,        \* sinceAccept when processMutationQueue last flushed
  burstDeliveries,     \* deliveries that contributed to the current queue
  lastCall,            \* deliveries behind the batch of the last callback call
  selfDelivered,       \* a record caused by the pipeline reached handleMutations
  unhandled,           \* a rejection of the callback's promise went unhandled
  rawLen,              \* records in the last oversized-capable delivery
  considered,          \* records of it that the filter was applied to
  \* ---- TransformationEngine and the element it is called for
  elem,                \* the kind of element the calls are for
  apiKey,              \* OPENAI_API_KEY is configured
  image,               \* the picture: "loading", "loaded", "broken" ("none": no img)
  attrs,               \* the element's attributes, "null" when absent
  keyboardHandlers,    \* this.keyboardHandlers.has(element)
  keydownListeners,    \* keydown listeners the engine added to the element
  transformedElements, \* this.transformedElements.get(element)
  calls,               \* the transform call of each pass, where it waits
  starts,              \* transform calls begun
  reverts,             \* attributes the page took off again
  captionRequests,     \* analyzeImageWithVision calls that went to the service
  logsReturned,        \* non-null logs returned, per issue type
  lastDone,            \* how the last returned call of each type ended
  revertedSince,       \* the page took an attribute off since that return
  pairs,               \* a returned call and the one begun next for the type
  altWrites,           \* values addAltText wrote to img.alt, and their origin
  altWriteCount,       \* times addAltText assigned img.alt
  visionEnds,          \* how each analyzeImageWithVision call that fetched ended
  requestAfterAlt,     \* a call begun after an alt write went to the service
  logAfterAlt,         \* a call begun after an alt write returned a log
  lateCallDone,        \* a call begun after an alt write has returned
  \* ---- DOMScanner.scan and the loop of scanAndTransform
  detected,            \* `issues` of scan before deduplicateIssues
  issues,              \* the list scan returned
  pc,                  \* where scanAndTransform is: "scan", "loop", "applied"
  cursor,              \* index of the loop's current issue
  inFlight,            \* the loop is awaiting transform(issue)
  done,                \* indices whose transform has settled
  began,               \* per transform begun: its index and `done` at that time
  processedPairs,      \* (element, type) pairs transform has recorded
  results,             \* per transform settled: its index and what it gave
  \* ---- AURA: stats.logs
  logs,                \* this.stats.logs: serial numbers of the entries, newest first
  logged,              \* addLog calls so far; the n-th adds entry n
  loggedAtClear,       \* `logged` at the last CLEAR_LOGS (0: never cleared)
  \* ---- AURA: bootstrap and initialize
  stored,              \* 'enabled' in chrome.storage.local: "undefined", "true", "false"
  flagAtLoad,          \* what the bootstrap read from it ("unread" before)
  phase,               \* where this page load is, see StorageRead
  enabled,             \* this.enabled
  initialized,         \* this.initialized
  reloadPending,       \* window.location.reload() was called
  loads,               \* page loads so far
  hasEmphasisTags,     \* the page ships <b> or <i> elements
  hasYouTubeText,      \* a text node of the page holds 'Me at the zoo'
  nodesReplaced,       \* a node of this page was replaced by the script
  textChanged,         \* the text of a node of this page was changed by it
  didScan,             \* scanner.scan ran on this page
  didRemediate,        \* the transform loop ran on this page
  didSweep,            \* ariaManager.applyARIA ran on this page
  initFailed,          \* initialize() caught an error on this page
  initAttempts,        \* times initialize() got past its guard on this page
  \* ---- ARIAManager over one subtree
  markup,              \* what each node of the subtree is
  ariaAttrs,           \* the attributes ARIAManager reads and writes, per node
  processedElements,   \* ARIAManager.processedElements
  sweeps,              \* per applyARIA call: its count, its writes, page untouched
  dirty,               \* the page has changed the subtree since the last call
  pageEdits,           \* changes the page has made to the subtree
  \* ---- DOMScanner.scan and the validator
  axeRunning,          \* DOMScanner.axeRunning
  isConnected,         \* the elements attached to the document
  scanCalls,           \* per scanner.scan call: root, caller, validator run, position
  scannerProcessed,    \* DOMScanner.processedElements
  \* ---- handleMutations on one delivery
  offered,             \* the delivery handleMutations was called with (<< >>: none yet)
  \* ---- AURA.stats over one page load (content.ts:30-36)
  issuesFound,         \* this.stats.issuesFound
  issuesFixed,         \* this.stats.issuesFixed
  ariaAttributesAdded, \* this.stats.ariaAttributesAdded
  logsAdded,           \* addLog calls made so far
  statsPc,             \* where the coordinator stands: see the statistics section
  loopLeft,            \* issues the running transform loop has still to handle
  changesHandled,      \* onDOMChange calls that went on to scan
  scanned,             \* issues returned by every scanner.scan call so far
  remedied             \* transform calls that returned a log so far

obsVars == <<observer, isObserving, mutationQueue, processingTimeout,
             processingElements, recentlyProcessed, observed, debounce, frames,
             decayTimers, passes>>
histVars == <<sinceAccept, accepted, flushedAccepted, lastFlushGap,
              burstDeliveries, lastCall, selfDelivered, unhandled>>
capVars == <<rawLen, considered>>
engVars == <<elem, apiKey, image, attrs, keyboardHandlers, keydownListeners,
             transformedElements, calls, starts, reverts, captionRequests,
             logsReturned, lastDone, revertedSince, pairs, altWrites,
             altWriteCount, visionEnds, requestAfterAlt, logAfterAlt, lateCallDone>>
altVars == <<altWrites, altWriteCount, visionEnds, requestAfterAlt, logAfterAlt,
             lateCallDone>>
scanVars == <<detected, issues, pc, cursor, inFlight, done, began, processedPairs,
              results>>

logVars == <<logs, logged, loggedAtClear>>
bootVars == <<stored, flagAtLoad, phase, enabled, initialized, reloadPending, loads,
              hasEmphasisTags, hasYouTubeText, nodesReplaced, textChanged, didScan,
              didRemediate, didSweep, initFailed, initAttempts>>
ariaVars == <<markup, ariaAttrs, processedElements, sweeps, dirty, pageEdits>>
axeVars == <<axeRunning, isConnected, scanCalls, scannerProcessed>>
filterVars == <<offered>>
statsVars == <<issuesFound, issuesFixed, ariaAttributesAdded, logsAdded, statsPc,
               loopLeft, changesHandled, scanned, remedied>>
auraVars == <<logVars, bootVars, ariaVars, axeVars, filterVars, statsVars>>

vars == <<obsVars, histVars, capVars, engVars, scanVars, auraVars>>

\* what the steps of one component leave alone
nonEngVars == <<obsVars, histVars, capVars, scanVars, auraVars>>
nonScanVars == <<obsVars, histVars, capVars, engVars, auraVars>>
nonCapVars == <<engVars, scanVars, auraVars>>
nonLogVars == <<obsVars, histVars, capVars, engVars, scanVars, bootVars, ariaVars,
                axeVars, filterVars, statsVars>>
nonAriaVars == <<obsVars, histVars, capVars, engVars, scanVars, logVars, bootVars,
                 axeVars, filterVars, statsVars>>
nonAxeVars == <<obsVars, histVars, capVars, engVars, scanVars, logVars, bootVars,
                ariaVars, filterVars, statsVars>>
nonFilterVars == <<capVars, engVars, scanVars, logVars, bootVars, ariaVars, axeVars,
                   statsVars>>
nonStatsVars == <<obsVars, histVars, capVars, engVars, scanVars, logVars, bootVars,
                  ariaVars, axeVars, filterVars>>
\* the observer's state but for the three fields start() assigns
obsRest == <<mutationQueue, processingTimeout, processingElements,
             recentlyProcessed, debounce, frames, decayTimers, passes>>
nonBootVars == <<obsRest, histVars, capVars, engVars, scanVars, logVars, ariaVars,
                 axeVars, filterVars, statsVars>>

Null == "null"

\* ------------------------------------------------------------------ bounds
MaxQueue == 2
MaxFrames == 1
MaxDecay == 1
MaxPasses == 1
MaxStarts == 3
MaxReverts == 1
MaxIssues == 3
MaxLogged == 52
MaxLoads == 2
MaxSweeps == 3
MaxPageEdits == 1
MaxScanCalls == 3
MaxOverlap == 2
MaxDecayPending == 2

\* --------------------------------------------------------- program constants
DEBOUNCE_MS == 100
MAX_MUTATIONS_PER_BATCH == 100
MAX_LOGS == 50

\* The clock advances in steps of half the debounce window.
TickMs == DEBOUNCE_MS \div 2

\* ------------------------------------------------------------------ the page
\* body > n1 > n2 ; t1 is a text node (child of n2); g1 is an element the page
\* itself ships with the data-web-ally-generated attribute.
Elements == {"body", "n1", "n2", "g1"}
TextNodes == {"t1"}
Nodes == Elements \cup TextNodes

IsHTMLElement(n) == n \in Elements

HasGeneratedAttr(n) == n = "g1"

\* root.querySelectorAll('*') plus the root: the nodes a pass over `root` can write to
Subtree(root) ==
  CASE root = "body" -> {"body", "n1", "n2", "g1"}
    [] root = "n1" -> {"n1", "n2"}
    [] OTHER -> {root}

\* ------------------------------------------------------------------ strings
Includes(s, k) ==
  \E i \in 1..(Len(s) - Len(k) + 1) : SubSeq(s, i, i + Len(k) - 1) = k

StartsWith(s, k) == Len(s) >= Len(k) /\ SubSeq(s, 1, Len(k)) = k

LowerOf(c) ==
  CASE c = "A" -> "a" [] c = "B" -> "b" [] c = "C" -> "c" [] c = "D" -> "d"
    [] c = "E" -> "e" [] c = "F" -> "f" [] c = "G" -> "g" [] c = "H" -> "h"
    [] c = "I" -> "i" [] c = "J" -> "j" [] c = "K" -> "k" [] c = "L" -> "l"
    [] c = "M" -> "m" [] c = "N" -> "n" [] c = "O" -> "o" [] c = "P" -> "p"
    [] c = "Q" -> "q" [] c = "R" -> "r" [] c = "S" -> "s" [] c = "T" -> "t"
    [] c = "U" -> "u" [] c = "V" -> "v" [] c = "W" -> "w" [] c = "X" -> "x"
    [] c = "Y" -> "y" [] c = "Z" -> "z" [] OTHER -> c

RECURSIVE ToLowerCase(_)
ToLowerCase(s) ==
  IF Len(s) = 0 THEN ""
  ELSE LowerOf(SubSeq(s, 1, 1)) \o ToLowerCase(SubSeq(s, 2, Len(s)))

\* JavaScript truthiness of a string-or-null
Truthy(v) == v # Null /\ v # ""

\* variables of the other components, left alone by the observer's steps
nonObsVars == <<capVars, engVars, scanVars, auraVars>>

\* ------------------------------------------------- MutationObserver options
NotObserved == [observing |-> FALSE]

\* the options start() passes to observe(document.body, ...)
StartOptions ==
  [observing |-> TRUE, childList |-> TRUE, subtree |-> TRUE, attributes |-> TRUE,
   attributeOldValue |-> TRUE,
   attributeFilter |-> {"class", "style", "aria-hidden", "aria-expanded",
                        "disabled", "hidden"},
   characterData |-> FALSE]

\* resume() re-observing without the attribute allow-list
ResumeOptionsUnfiltered ==
  [observing |-> TRUE, childList |-> TRUE, subtree |-> TRUE, attributes |-> TRUE,
   attributeOldValue |-> TRUE,
   attributeFilter |-> {"class", "style", "aria-hidden", "aria-expanded",
                        "disabled", "hidden", "role", "tabindex", "alt"},
   characterData |-> FALSE]

\* the options resume() passes to observe(document.body, ...)
ResumeOptions ==
  [observing |-> TRUE, childList |-> TRUE, subtree |-> TRUE, attributes |-> TRUE,
   attributeOldValue |-> TRUE,
   attributeFilter |-> {"class", "style", "aria-hidden", "aria-expanded",
                        "disabled", "hidden"},
   characterData |-> FALSE]

\* ---------------------------------------------------------- MutationRecord
\* newValue is what target.getAttribute(attributeName) returns when the record
\* is filtered. Two fields are history only: origin tells the page's own changes
\* from the pipeline's writes, and late marks a record that the host delivered
\* behind MAX_MUTATIONS_PER_BATCH others.
ChildListRecord(t, added, who) ==
  [type |-> "childList", target |-> t, addedNodes |-> added,
   attributeName |-> Null, oldValue |-> Null, newValue |-> Null, origin |-> who,
   late |-> FALSE]

AttributeRecord(t, a, old, new, who) ==
  [type |-> "attributes", target |-> t, addedNodes |-> << >>,
   attributeName |-> a, oldValue |-> old, newValue |-> new, origin |-> who,
   late |-> FALSE]

\* Whether the host queues a record of this change for an observer registered
\* with options o (DOM standard; the options are those of start()/resume()).
HostRecords(o, m) ==
  /\ o.observing
  /\ CASE m.type = "childList" -> o.childList
       [] m.type = "attributes" -> o.attributes /\ m.attributeName \in o.attributeFilter
       [] OTHER -> o.characterData

\* ------------------------------------------------- handleMutations: filter
VisibilityKeywords ==
  {"hide", "show", "visible", "hidden", "display", "opacity", "collapse"}

\* a keyword test that ignores whether there was an old value
KeywordInEither(oldValue, newValue) ==
  \E k \in VisibilityKeywords :
    \/ oldValue # Null /\ Includes(ToLowerCase(oldValue), k)
    \/ newValue # Null /\ Includes(ToLowerCase(newValue), k)

didVisibilityChange(oldValue, newValue) ==
  IF oldValue = Null THEN TRUE
  ELSE IF oldValue = newValue THEN FALSE
  ELSE LET oldHasKeyword ==
             \E k \in VisibilityKeywords : Includes(ToLowerCase(oldValue), k)
           newHasKeyword ==
             newValue # Null /\
             \E k \in VisibilityKeywords : Includes(ToLowerCase(newValue), k)
       IN oldHasKeyword \/ newHasKeyword

\* the addition test without the aria- prefix case
IsRoleOrTabindexAddition(m) ==
  /\ m.type = "attributes"
  /\ \/ m.attributeName = "role"
     \/ m.attributeName = "tabindex"
  /\ ~Truthy(m.oldValue)
  /\ Truthy(m.newValue)

\* lines 100-114: an attribute this system writes was added (null -> value)
IsOwnAriaAddition(m) ==
  /\ m.type = "attributes"
  /\ \/ StartsWith(m.attributeName, "aria-")
     \/ m.attributeName = "role"
     \/ m.attributeName = "tabindex"
  /\ ~Truthy(m.oldValue)
  /\ Truthy(m.newValue)

\* the predicate of mutations.filter(...), lines 80-134
IsRelevant(m, processing, recent) ==
  /\ m.target \notin processing
  /\ m.target \notin recent
  /\ IsHTMLElement(m.target) =>
       /\ ~HasGeneratedAttr(m.target)
       /\ ~IsOwnAriaAddition(m)
  /\ IF m.type = "childList" THEN Len(m.addedNodes) > 0
     ELSE IF m.type = "attributes" /\ m.attributeName \in {"class", "style"}
          THEN didVisibilityChange(m.oldValue, m.newValue)
          ELSE TRUE

\* a delivery taken whole
UnlimitedBatch(mutations) == mutations

\* lines 74-77: mutations.slice(0, MAX_MUTATIONS_PER_BATCH)
LimitBatch(mutations) ==
  IF Len(mutations) > MAX_MUTATIONS_PER_BATCH
  THEN SubSeq(mutations, 1, MAX_MUTATIONS_PER_BATCH)
  ELSE mutations

RelevantMutations(mutations, processing, recent) ==
  SelectSeq(LimitBatch(mutations), LAMBDA m : IsRelevant(m, processing, recent))

\* lines 140-148: the first record of each target that is not in
\* uniqueTargets yet, in the order of the records
DedupFrom(ms, uniqueTargets) ==
  LET first == { i \in 1..Len(ms) :
                   /\ ms[i].target \notin uniqueTargets
                   /\ \A j \in 1..(i - 1) : ms[j].target # ms[i].target }
      nth(k) == CHOOSE i \in first : Cardinality({j \in first : j <= i}) = k
  IN [k \in 1..Cardinality(first) |-> ms[nth(k)]]

DedupByTarget(ms) == DedupFrom(ms, {})

\* a push that adds nothing
PushNone(queue, deduped) == queue

\* line 151: this.mutationQueue.push(...dedupedMutations)
PushAll(queue, deduped) == queue \o deduped

\* a timer that is armed only when none is pending
KeptTimer(left) == IF left >= 0 THEN left ELSE DEBOUNCE_MS

\* lines 153-160: the debounce timer after a delivery that accepted something
\* (left: what the pending timer, if any, had left): cleared and set anew
RearmedTimer(left) == DEBOUNCE_MS

\* handleMutations(mutations) as a whole, with the history it leaves
HandleMutations(mutations) ==
  LET relevant == RelevantMutations(mutations, processingElements, recentlyProcessed)
      deduped == DedupByTarget(relevant)
  IN /\ selfDelivered' = (selfDelivered \/ \E i \in 1..Len(mutations) :
                                              mutations[i].origin = "self")
     /\ IF relevant = << >>
        THEN UNCHANGED <<mutationQueue, processingTimeout, debounce, sinceAccept,
                         accepted, burstDeliveries>>
        ELSE /\ mutationQueue' = PushAll(mutationQueue, deduped)
             /\ processingTimeout' = "timer"
             /\ debounce' = RearmedTimer(debounce)
             /\ sinceAccept' = 0
             /\ accepted' = accepted \o deduped
             /\ burstDeliveries' = IF burstDeliveries < 2 THEN burstDeliveries + 1 ELSE 2


\* ------------------------------------------------------ the page's changes
\* The DOM changes the page makes while it is observed, one record each.
PageRecords ==
  { ChildListRecord("body", <<"n1">>, "page"),
    AttributeRecord("n1", "class", "btn", "btn hidden", "page"),
    AttributeRecord("n1", "aria-expanded", Null, "true", "page") }

SeqsUpTo2(S) == { <<a>> : a \in S } \cup { <<a, b>> : a \in S, b \in S }

\* ------------------------------------------------- the pipeline's own writes
\* Every attribute the remediation pass writes: [attributeName, oldValue, newValue].
\* A write guarded by !hasAttribute(name) has oldValue null.
PipelineWrites ==
  { [attributeName |-> "role", oldValue |-> Null, newValue |-> "button"],
    [attributeName |-> "tabindex", oldValue |-> Null, newValue |-> "0"],
    [attributeName |-> "aria-label", oldValue |-> Null, newValue |-> "Buy Now"],
    [attributeName |-> "alt", oldValue |-> Null, newValue |-> ""],
    [attributeName |-> "for", oldValue |-> "x", newValue |-> "aura-input-1"],
    [attributeName |-> "aria-modal", oldValue |-> "false", newValue |-> "true"],
    [attributeName |-> "aria-expanded", oldValue |-> Null, newValue |-> "true"],
    [attributeName |-> "aria-expanded", oldValue |-> Null, newValue |-> "false"],
    [attributeName |-> "aria-hidden", oldValue |-> Null, newValue |-> "true"],
    [attributeName |-> "aria-disabled", oldValue |-> Null, newValue |-> "true"],
    [attributeName |-> "aria-atomic", oldValue |-> "false", newValue |-> "true"] }

SelfRecords(root) ==
  { AttributeRecord(n, w.attributeName, w.oldValue, w.newValue, "self") :
      n \in Subtree(root) \cap Elements, w \in PipelineWrites }

\* the records the host queues for the observer out of a sequence of changes
Delivered(changes) == SelectSeq(changes, LAMBDA m : HostRecords(observed, m))

\* ------------------------------------------------------- observer lifecycle
\* start(), lines 25-54
ObserverStart ==
  IF isObserving
  THEN UNCHANGED <<observer, observed, isObserving>>
  ELSE /\ observer' = "MutationObserver"
       /\ observed' = StartOptions
       /\ isObserving' = TRUE

Start ==
  /\ ObserverStart
  /\ UNCHANGED <<mutationQueue, processingTimeout, processingElements,
                 recentlyProcessed, debounce, frames, decayTimers, passes>>
  /\ UNCHANGED histVars
  /\ UNCHANGED nonObsVars

\* stop(), lines 56-70
Stop ==
  /\ observer' = Null
  /\ observed' = NotObserved
  /\ processingTimeout' = Null
  /\ debounce' = IF processingTimeout # Null THEN -1 ELSE debounce
  /\ isObserving' = FALSE
  /\ mutationQueue' = << >>
  /\ accepted' = << >>
  /\ burstDeliveries' = 0
  /\ UNCHANGED <<processingElements, recentlyProcessed, frames, decayTimers, passes>>
  /\ UNCHANGED <<sinceAccept, flushedAccepted, lastFlushGap, lastCall,
                 selfDelivered, unhandled>>
  /\ UNCHANGED nonObsVars

\* pause(), lines 241-247
Pause ==
  /\ IF observer # Null /\ isObserving
     THEN /\ observed' = NotObserved
          /\ isObserving' = FALSE
     ELSE UNCHANGED <<observed, isObserving>>
  /\ UNCHANGED <<observer, mutationQueue, processingTimeout, processingElements,
                 recentlyProcessed, debounce, frames, decayTimers, passes>>
  /\ UNCHANGED histVars
  /\ UNCHANGED nonObsVars

\* resume(), lines 252-273
Resume ==
  /\ IF observer # Null /\ ~isObserving
     THEN /\ observed' = ResumeOptions
          /\ isObserving' = TRUE
     ELSE UNCHANGED <<observed, isObserving>>
  /\ UNCHANGED <<observer, mutationQueue, processingTimeout, processingElements,
                 recentlyProcessed, debounce, frames, decayTimers, passes>>
  /\ UNCHANGED histVars
  /\ UNCHANGED nonObsVars

\* The host delivers the records of the page's changes to the MutationObserver
\* callback (line 31), which runs handleMutations.
PageMutation ==
  /\ observed.observing
  /\ \E changes \in SeqsUpTo2(PageRecords) :
       LET mutations == Delivered(changes) IN
         /\ mutations # << >>
         /\ HandleMutations(mutations)
         /\ Len(mutationQueue') <= MaxQueue
  /\ UNCHANGED <<observer, isObserving, observed, processingElements,
                 recentlyProcessed, frames, decayTimers, passes>>
  /\ UNCHANGED <<flushedAccepted, lastFlushGap, lastCall, unhandled>>
  /\ UNCHANGED nonObsVars

\* the nodes processMutationQueue marks for a batch (lines 173-180, 190-200)
MarkedNodes(mutations) ==
  { mutations[i].target : i \in 1..Len(mutations) } \cup
  { n \in Elements : \E i \in 1..Len(mutations) :
        \E j \in 1..Len(mutations[i].addedNodes) : mutations[i].addedNodes[j] = n }

\* a flush that takes the oldest notification only
OldestOnly(queue) == <<Head(queue)>>

\* the batch processMutationQueue takes out of the queue (lines 168-169)
FlushedBatch(queue) == queue

\* The debounce timer fires: processMutationQueue(), lines 163-183
DebounceFire ==
  /\ debounce = 0
  /\ debounce' = -1
  /\ IF mutationQueue = << >>
     THEN UNCHANGED <<mutationQueue, processingTimeout, processingElements, frames,
                      accepted, flushedAccepted, lastFlushGap>>
     ELSE /\ Len(frames) < MaxFrames
          /\ frames' = Append(frames, [batch |-> FlushedBatch(mutationQueue),
                                       deliveries |-> burstDeliveries])
          /\ mutationQueue' = << >>
          /\ processingTimeout' = Null
          /\ processingElements' =
               processingElements \cup MarkedNodes(FlushedBatch(mutationQueue))
          /\ flushedAccepted' = Append(flushedAccepted, accepted)
          /\ accepted' = << >>
          /\ lastFlushGap' = sinceAccept
  /\ burstDeliveries' = 0
  /\ UNCHANGED <<observer, isObserving, observed, recentlyProcessed, decayTimers, passes>>
  /\ UNCHANGED <<sinceAccept, lastCall, selfDelivered, unhandled>>
  /\ UNCHANGED nonObsVars


\* --------------------------------------------------- the callback: onDOMChange
RECURSIVE AddedElements(_, _)
AddedElements(nodes, seen) ==
  IF nodes = << >> THEN << >>
  ELSE IF IsHTMLElement(Head(nodes)) /\ Head(nodes) \notin seen
       THEN <<Head(nodes)>> \o AddedElements(Tail(nodes), seen \cup {Head(nodes)})
       ELSE AddedElements(Tail(nodes), seen)

RECURSIVE AllAdded(_)
AllAdded(mutations) ==
  IF mutations = << >> THEN << >>
  ELSE Head(mutations).addedNodes \o AllAdded(Tail(mutations))

\* content.ts:201-216: elementsToScan, in insertion order (characterData records
\* would add the target's parent; the observer never subscribes to them)
ElementsToScan(mutations) == AddedElements(AllAdded(mutations), {})

\* the finally block's processingElements.delete of lines 189-198
StillMarked(processing, marked) == processing
Unmarked(processing, marked) == processing \ marked

\* The animation frame of a flushed batch runs (lines 183-207): the callback is
\* called, and since onDOMChange is an async function the call returns its
\* promise at the first await; the finally block then runs at once.
FrameFires(maxDecay, maxPasses) ==
  /\ frames # << >>
  /\ Len(decayTimers) < maxDecay
  /\ LET f == Head(frames)
         todo == ElementsToScan(f.batch)
         marked == MarkedNodes(f.batch)
     IN /\ IF todo = << >>
           THEN UNCHANGED passes
           ELSE /\ Len(passes) < maxPasses
                /\ passes' = Append(passes, [todo |-> todo, marked |-> marked])
        /\ processingElements' = Unmarked(processingElements, marked)
        /\ recentlyProcessed' = recentlyProcessed \cup marked
        /\ decayTimers' = Append(decayTimers,
                                 [left |-> DEBOUNCE_MS * 2, promoted |-> marked])
        /\ lastCall' = f.deliveries
  /\ frames' = Tail(frames)
  /\ flushedAccepted' = Tail(flushedAccepted)
  /\ UNCHANGED <<observer, isObserving, observed, mutationQueue, processingTimeout,
                 debounce>>
  /\ UNCHANGED <<sinceAccept, accepted, lastFlushGap, burstDeliveries,
                 selfDelivered, unhandled>>
  /\ UNCHANGED nonObsVars

FrameFire == FrameFires(MaxDecay, MaxPasses)

\* the same frame, with room for a second pass and a second pending reset
FrameFireOverlapping == FrameFires(MaxDecayPending, MaxOverlap)

\* The setTimeout of lines 203-205 fires: this.recentlyProcessed = new WeakSet()
DecayFire ==
  /\ decayTimers # << >>
  /\ Head(decayTimers).left = 0
  /\ decayTimers' = Tail(decayTimers)
  /\ recentlyProcessed' = {}
  /\ UNCHANGED <<observer, isObserving, observed, mutationQueue, processingTimeout,
                 processingElements, debounce, frames, passes>>
  /\ UNCHANGED histVars
  /\ UNCHANGED nonObsVars

\* onDOMChange resumes for its next element (content.ts:220-226): scan,
\* transform and applyARIA write attributes on the element's subtree, and the
\* host delivers the records of the observed ones to handleMutations.
PassStep ==
  /\ passes # << >>
  /\ LET p == Head(passes)
         rest == Tail(p.todo)
     IN /\ passes' = IF rest = << >> THEN Tail(passes)
                     ELSE <<[p EXCEPT !.todo = rest]>> \o Tail(passes)
        /\ \E writes \in {<< >>} \cup { <<w>> : w \in SelfRecords(Head(p.todo)) } :
             LET mutations == Delivered(writes) IN
               IF mutations = << >>
               THEN UNCHANGED <<mutationQueue, processingTimeout, debounce,
                                sinceAccept, accepted, burstDeliveries, selfDelivered>>
               ELSE /\ HandleMutations(mutations)
                    /\ Len(mutationQueue') <= MaxQueue
  /\ UNCHANGED <<observer, isObserving, observed, processingElements,
                 recentlyProcessed, frames, decayTimers>>
  /\ UNCHANGED <<flushedAccepted, lastFlushGap, lastCall, unhandled>>
  /\ UNCHANGED nonObsVars

\* scan() or applyARIA() throws inside onDOMChange after its first await: the
\* promise the callback returned is rejected, and processMutationQueue neither
\* awaits it nor attaches a handler to it.
PassThrows ==
  /\ passes # << >>
  /\ passes' = Tail(passes)
  /\ unhandled' = TRUE
  /\ UNCHANGED <<observer, isObserving, observed, mutationQueue, processingTimeout,
                 processingElements, recentlyProcessed, debounce, frames, decayTimers>>
  /\ UNCHANGED <<sinceAccept, accepted, flushedAccepted, lastFlushGap,
                 burstDeliveries, lastCall, selfDelivered>>
  /\ UNCHANGED nonObsVars

Min(a, b) == IF a < b THEN a ELSE b

\* Time passes; a timer that is due fires before the clock moves on.
Tick ==
  /\ debounce # 0
  /\ \A i \in 1..Len(decayTimers) : decayTimers[i].left # 0
  /\ debounce' = IF debounce > 0 THEN debounce - TickMs ELSE debounce
  /\ decayTimers' = [i \in 1..Len(decayTimers) |->
                       [decayTimers[i] EXCEPT !.left = @ - TickMs]]
  /\ sinceAccept' = Min(sinceAccept + TickMs, DEBOUNCE_MS)
  /\ UNCHANGED <<observer, isObserving, observed, mutationQueue, processingTimeout,
                 processingElements, recentlyProcessed, frames, passes>>
  /\ UNCHANGED <<accepted, flushedAccepted, lastFlushGap, burstDeliveries, lastCall,
                 selfDelivered, unhandled>>
  /\ UNCHANGED nonObsVars

\* ------------------------------------------ handleMutations, record by record
\* An element of the page that is not an HTMLElement (an inline <svg>), for the
\* `target instanceof HTMLElement` test of line 94.
SvgElements == {"svg1"}

CharacterDataRecord(t, old, new, who) ==
  [type |-> "characterData", target |-> t, addedNodes |-> << >>,
   attributeName |-> Null, oldValue |-> old, newValue |-> new, origin |-> who,
   late |-> FALSE]

\* values of a class or style attribute (Null: the attribute is absent)
ClassValues == {Null, "btn", "btn active", "btn hidden", "hide-me", "Tab SHOW"}

\* values of a state attribute
StateValues == {Null, "", "true", "false"}

\* One record of every kind handleMutations can be called with. oldValue is the
\* record's, newValue what target.getAttribute(name) (for text: the data) gives
\* when the filter runs.
FilterRecords ==
  { AttributeRecord(t, a, old, new, "page") :
      t \in {"n1", "svg1"}, a \in {"class", "style"},
      old \in ClassValues, new \in ClassValues }
  \cup
  { AttributeRecord(t, a, old, new, "page") :
      t \in {"n1", "g1", "svg1"},
      a \in {"aria-hidden", "aria-expanded", "role", "tabindex", "disabled"},
      old \in StateValues, new \in StateValues \ {""} }
  \cup
  { ChildListRecord("n1", added, "page") : added \in {<< >>, <<"n2">>} }
  \cup
  { CharacterDataRecord("t1", old, new, "page") :
      old \in {"", "Hi"}, new \in {"", "Hi", "Ho"} }

\* handleMutations is called with one record, for the first time since start()
FilterCall ==
  /\ observer # Null
  /\ offered = << >>
  /\ \E m \in FilterRecords :
       /\ HandleMutations(<<m>>)
       /\ offered' = <<m>>
  /\ UNCHANGED <<observer, isObserving, observed, processingElements,
                 recentlyProcessed, frames, decayTimers, passes>>
  /\ UNCHANGED <<flushedAccepted, lastFlushGap, lastCall, unhandled>>
  /\ UNCHANGED nonFilterVars

FilterInit == offered = << >>

NextFilter ==
  \/ Start
  \/ FilterCall

\* ============================================================ TransformationEngine
\* One element of the page and the transform calls the remediation passes make
\* for it.  A call runs without interruption up to its next wait on the image,
\* on the captioning service or on a back-off timer; every other await of
\* transform resolves in the same turn of the event loop.

NON_SEMANTIC_BUTTON == "non-semantic-button"
NON_SEMANTIC_EMPHASIS == "non-semantic-emphasis"
MISSING_ARIA_LABEL == "missing-aria-label"
MISSING_ALT_TEXT == "missing-alt-text"
MISSING_KEYBOARD_ACCESS == "missing-keyboard-access"
UNLABELED_FORM_ELEMENT == "unlabeled-form-element"
UNCONNECTED_LABEL_INPUT == "unconnected-label-input"
ANCHOR_NEEDS_CONTEXT == "anchor-needs-context"

IssueTypes ==
  {NON_SEMANTIC_BUTTON, NON_SEMANTIC_EMPHASIS, MISSING_ARIA_LABEL, MISSING_ALT_TEXT,
   MISSING_KEYBOARD_ACCESS, UNLABELED_FORM_ELEMENT, UNCONNECTED_LABEL_INPUT,
   ANCHOR_NEEDS_CONTEXT}

\* ---- the elements transform is called for
\* div:        <div onclick=... style="font-weight:bold">Go</div>
\* divBuy:     <div onclick=... title="Checkout">Buy Now</div>
\* img:        <img src="https://cdn.test/hero-shot.png">, 640x480, still loading
\* imgNumeric: <img src="https://cdn.test/1024.png">, 640x480, still loading
\* imgTitled:  <img src="https://cdn.test/1024.png" title="Logo">
\* input:      <input type="text">
\* inputBadId: <input type="text" id='a"b'>
\* label:      <label>Name</label><input type="text">
\* a:          <a href="#" target="_blank">more</a> inside a paragraph
ElementKinds ==
  {"div", "divBuy", "img", "imgNumeric", "imgTitled", "input", "inputBadId", "label",
   "a"}

tagName(k) ==
  CASE k \in {"img", "imgNumeric", "imgTitled"} -> "img"
    [] k \in {"input", "inputBadId"} -> "input"
    [] k = "divBuy" -> "div"
    [] OTHER -> k

textContent(k) ==
  CASE k = "div" -> "Go" [] k = "divBuy" -> "Buy Now" [] k = "label" -> "Name"
    [] k = "a" -> "more" [] OTHER -> ""

HasOnclick(k) == k \in {"div", "divBuy"}

IsBold(k) == k = "div"

Src(k) ==
  CASE k = "img" -> "https://cdn.test/hero-shot.png"
    [] k \in {"imgNumeric", "imgTitled"} -> "https://cdn.test/1024.png"
    [] OTHER -> ""

\* element.tabIndex of an element without a tabindex attribute
DefaultTabIndex(k) == IF tagName(k) \in {"a", "input"} THEN 0 ELSE -1

\* document.querySelector(`label[for="${element.id}"]`) throws a SyntaxError
\* when the id closes the quoted string of the selector
SelectorThrows(k) == k = "inputBadId"

\* the issue types DOMScanner reports for an element of each kind
IssuesOf(k) ==
  CASE k = "div" -> {NON_SEMANTIC_BUTTON, MISSING_KEYBOARD_ACCESS, NON_SEMANTIC_EMPHASIS}
    [] k = "divBuy" -> {NON_SEMANTIC_BUTTON, MISSING_KEYBOARD_ACCESS}
    [] k \in {"img", "imgNumeric", "imgTitled"} -> {MISSING_ALT_TEXT}
    [] k \in {"input", "inputBadId"} -> {UNLABELED_FORM_ELEMENT}
    [] k = "label" -> {UNCONNECTED_LABEL_INPUT}
    [] OTHER -> {MISSING_ARIA_LABEL, ANCHOR_NEEDS_CONTEXT}

\* the attributes of the element the engine reads or writes; "input.id" is the
\* id of the form control that follows a label
AttrNames ==
  {"role", "tabindex", "aria-label", "aria-labelledby", "alt", "title", "for",
   "data-weally-emphasis", "data-web-ally-generated", "input.id"}

InitialAttrs(k) ==
  [a \in AttrNames |-> IF k = "imgTitled" /\ a = "title" THEN "Logo"
                       ELSE IF k = "divBuy" /\ a = "title" THEN "Checkout"
                       ELSE Null]

hasAttribute(a, name) == a[name] # Null

\* `aura-input-${Math.random().toString(36).substring(2, 11)}`
RandomIds == {"aura-input-k3j9x0q1z", "aura-input-0f8w2m5ab"}

VISION_API_RETRIES == 2

PassIds == {1, 2}

IdleCall ==
  [pc |-> "idle", type |-> Null, attempt |-> 0, prev |-> "none", reverted |-> FALSE,
   afterAlt |-> FALSE]

\* ---- img.src.split('/').pop()?.split('.')[0], then the filename rules
RECURSIVE PopAfterSlash(_)
PopAfterSlash(s) ==
  IF ~Includes(s, "/") THEN s
  ELSE LET i == CHOOSE j \in 1..Len(s) :
                  SubSeq(s, j, j) = "/" /\ \A h \in 1..(j - 1) : SubSeq(s, h, h) # "/"
       IN PopAfterSlash(SubSeq(s, i + 1, Len(s)))

BeforeDot(s) ==
  IF ~Includes(s, ".") THEN s
  ELSE LET i == CHOOSE j \in 1..Len(s) :
                  SubSeq(s, j, j) = "." /\ \A h \in 1..(j - 1) : SubSeq(s, h, h) # "."
       IN SubSeq(s, 1, i - 1)

NeverDigits(s) == FALSE

\* filename.match(/^\d+$/)
IsDigits(s) ==
  Len(s) > 0 /\ \A i \in 1..Len(s) :
                  SubSeq(s, i, i) \in {"0", "1", "2", "3", "4", "5", "6", "7", "8", "9"}

RECURSIVE DashesToSpaces(_)
DashesToSpaces(s) ==
  IF Len(s) = 0 THEN ""
  ELSE (IF SubSeq(s, 1, 1) \in {"-", "_"} THEN " " ELSE SubSeq(s, 1, 1))
         \o DashesToSpaces(SubSeq(s, 2, Len(s)))

FilenameAlt(src) ==
  LET filename == BeforeDot(PopAfterSlash(src)) IN
    IF filename # "" /\ ~IsDigits(filename) /\ Len(filename) < 50
    THEN DashesToSpaces(filename) ELSE ""

\* ---- what a handler did: the attributes after it, whether the element has
\* an entry in keyboardHandlers, the keydown listeners it added, whether it
\* returned a log, whether it wrote anything, whether it threw
Outcome(a, h, added, log, threw) ==
  [attrs |-> a, handlers |-> h, added |-> added, log |-> log,
   changed |-> (a # attrs \/ added > 0), threw |-> threw]

Nothing == Outcome(attrs, keyboardHandlers, 0, FALSE, FALSE)

\* a handler that leaves the element as it found it
LeavesElementAlone(k) == Nothing

makeButtonAccessible(k) ==
  IF tagName(k) \in {"button", "a"} THEN Nothing
  ELSE
    LET a1 == IF ~hasAttribute(attrs, "role")
              THEN [attrs EXCEPT !["role"] = "button"] ELSE attrs
        a2 == IF ~hasAttribute(a1, "tabindex")
              THEN [a1 EXCEPT !["tabindex"] = "0"] ELSE a1
        text == textContent(k)
        a3 == IF ~hasAttribute(a2, "aria-label") /\ ~hasAttribute(a2, "aria-labelledby")
              THEN [a2 EXCEPT !["aria-label"] =
                      IF Len(text) > 0 /\ Len(text) < 100 THEN text ELSE "button"]
              ELSE a2
    IN Outcome(a3, TRUE, IF keyboardHandlers THEN 0 ELSE 1, TRUE, FALSE)

makeEmphasisAccessible(k) ==
  LET text == textContent(k) IN
    IF Len(text) = 0 \/ Len(text) > 100 \/ Truthy(attrs["aria-label"]) THEN Nothing
    ELSE IF ~IsBold(k) THEN Nothing
    ELSE Outcome([attrs EXCEPT !["data-weally-emphasis"] = "strong"],
                 keyboardHandlers, 0, TRUE, FALSE)

\* addKeyboardAccess attaching its listener without consulting keyboardHandlers
AttachesAnyway(k) ==
  LET focus == ~hasAttribute(attrs, "tabindex") /\ DefaultTabIndex(k) < 0
      a1 == IF focus THEN [attrs EXCEPT !["tabindex"] = "0"] ELSE attrs
      hasClickHandler == HasOnclick(k) \/ attrs["role"] = "button"
  IN IF ~focus /\ ~hasClickHandler THEN Nothing
     ELSE Outcome(a1, keyboardHandlers \/ hasClickHandler,
                  IF hasClickHandler THEN 1 ELSE 0, TRUE, FALSE)

addKeyboardAccess(k) ==
  LET focus == ~hasAttribute(attrs, "tabindex") /\ DefaultTabIndex(k) < 0
      a1 == IF focus THEN [attrs EXCEPT !["tabindex"] = "0"] ELSE attrs
      hasClickHandler == HasOnclick(k) \/ attrs["role"] = "button"
      attach == hasClickHandler /\ ~keyboardHandlers
  IN IF ~focus /\ ~attach THEN Nothing
     ELSE Outcome(a1, keyboardHandlers \/ attach, IF attach THEN 1 ELSE 0, TRUE, FALSE)

addFormLabel(k) ==
  IF hasAttribute(attrs, "aria-label") \/ hasAttribute(attrs, "aria-labelledby")
  THEN Nothing
  ELSE IF SelectorThrows(k) THEN Outcome(attrs, keyboardHandlers, 0, FALSE, TRUE)
  ELSE LET labelText == IF Truthy(attrs["title"]) THEN attrs["title"] ELSE "text input"
       IN Outcome([attrs EXCEPT !["aria-label"] = labelText],
                  keyboardHandlers, 0, TRUE, FALSE)

connectLabelToInput(k, rnd) ==
  LET labelFor == attrs["for"]
      inputId == attrs["input.id"]
  IN IF Truthy(labelFor) /\ Truthy(inputId) /\ labelFor = inputId THEN Nothing
     ELSE LET id == IF ~Truthy(inputId) THEN rnd ELSE inputId
          IN Outcome([attrs EXCEPT !["input.id"] = id, !["for"] = id],
                     keyboardHandlers, 0, TRUE, FALSE)

\* the switch of transform, for the types whose handler never waits
Handler(k, t, rnd) ==
  CASE t = NON_SEMANTIC_BUTTON -> makeButtonAccessible(k)
    [] t = NON_SEMANTIC_EMPHASIS -> makeEmphasisAccessible(k)
    [] t = MISSING_KEYBOARD_ACCESS -> addKeyboardAccess(k)
    [] t = UNLABELED_FORM_ELEMENT -> addFormLabel(k)
    [] t = UNCONNECTED_LABEL_INPUT -> connectLabelToInput(k, rnd)
    [] OTHER -> Nothing

\* processedTypes.add(issue.type) without the call
RecordNothing(processedTypes, t) == processedTypes

\* processedTypes.add(issue.type)
RecordType(processedTypes, t) == processedTypes \cup {t}

\* transform returns to the pass that called it, with `processed` the types
\* recorded for the element by then
Returns(p, c, out, processed) ==
  /\ attrs' = out.attrs
  /\ keyboardHandlers' = out.handlers
  /\ keydownListeners' = keydownListeners + out.added
  /\ transformedElements' = processed
  /\ logsReturned' = [logsReturned EXCEPT ![c.type] = @ + (IF out.log THEN 1 ELSE 0)]
  /\ lastDone' = [lastDone EXCEPT ![c.type] = IF out.threw THEN "threw"
                                                ELSE IF out.log THEN "log" ELSE "null"]
  /\ revertedSince' = [revertedSince EXCEPT ![c.type] = FALSE]
  /\ pairs' = IF c.prev = "none" THEN pairs
              ELSE pairs \cup {[type |-> c.type, first |-> c.prev,
                                reverted |-> c.reverted, secondLog |-> out.log,
                                secondChanged |-> out.changed]}
  /\ calls' = [calls EXCEPT ![p] = IdleCall]
  /\ logAfterAlt' = (logAfterAlt \/ (c.afterAlt /\ out.log))
  /\ lateCallDone' = (lateCallDone \/ c.afterAlt)

NeverProcessed(processed, t) == FALSE

\* processedTypes.has(issue.type)
AlreadyProcessed(processed, t) == t \in processed

\* lines 26-28: the type is already recorded for the element
ReturnsEarly(p, c) ==
  /\ Returns(p, c, Nothing, transformedElements)
  /\ UNCHANGED <<altWrites, altWriteCount>>

\* lines 68-73: the handler returned and the type is recorded, or it threw and
\* the catch returns null
Completes(p, c, out) ==
  Returns(p, c, out, IF out.threw THEN transformedElements
                     ELSE RecordType(transformedElements, c.type))

\* img.alt = altText, after the filename fallback, and the log; `cause` tells
\* where addAltText took the text from
WritesAlt(p, c, altText, cause) ==
  LET alt == IF altText = "" /\ Src(elem) # "" THEN FilenameAlt(Src(elem)) ELSE altText
  IN /\ Completes(p, c, [attrs |-> [attrs EXCEPT !["alt"] = alt],
                         handlers |-> keyboardHandlers, added |-> 0, log |-> TRUE,
                         changed |-> TRUE, threw |-> FALSE])
     /\ altWrites' = altWrites \cup {[cause |-> cause, value |-> alt]}
     /\ altWriteCount' = altWriteCount + 1

Suspends(p, c, at, attempt) ==
  /\ calls' = [calls EXCEPT ![p] = [c EXCEPT !.pc = at, !.attempt = attempt]]
  /\ UNCHANGED <<attrs, keyboardHandlers, keydownListeners, transformedElements,
                 logsReturned, lastDone, revertedSince, pairs>>
  /\ UNCHANGED <<altWrites, altWriteCount, logAfterAlt, lateCallDone>>

\* addAltText from the size test on: analyzeImageWithVision for a picture that
\* is no data: URL and larger than 50x50; without an API key it returns ''
\* and sends nothing
AfterImageWait(p, c, img) ==
  IF ~StartsWith(Src(elem), "data:") /\ img = "loaded"
  THEN IF apiKey
       THEN /\ Suspends(p, c, "fetch", 0)
            /\ captionRequests' = captionRequests + 1
            /\ requestAfterAlt' = (requestAfterAlt \/ c.afterAlt)
       ELSE WritesAlt(p, c, "", "nokey") /\ UNCHANGED <<captionRequests, requestAfterAlt>>
  ELSE WritesAlt(p, c, "", "skipped") /\ UNCHANGED <<captionRequests, requestAfterAlt>>

\* addAltText up to its first wait
AltTextEntry(p, c) ==
  IF hasAttribute(attrs, "alt")
  THEN /\ Completes(p, c, Nothing)
       /\ UNCHANGED <<altWrites, altWriteCount, captionRequests, requestAfterAlt>>
  ELSE IF Truthy(attrs["aria-label"])
  THEN /\ WritesAlt(p, c, attrs["aria-label"], "label")
       /\ UNCHANGED <<captionRequests, requestAfterAlt>>
  ELSE IF Truthy(attrs["title"])
  THEN /\ WritesAlt(p, c, attrs["title"], "title")
       /\ UNCHANGED <<captionRequests, requestAfterAlt>>
  ELSE IF Src(elem) # "" /\ image = "loading"
  THEN Suspends(p, c, "loadWait", 0) /\ UNCHANGED <<captionRequests, requestAfterAlt>>
  ELSE IF Src(elem) # ""
  THEN AfterImageWait(p, c, image)
  ELSE WritesAlt(p, c, "", "skipped") /\ UNCHANGED <<captionRequests, requestAfterAlt>>

\* A pass calls transform(issue) for the element; the call runs to its return
\* or to its first wait.
TransformStart ==
  /\ starts < MaxStarts
  /\ \E p \in PassIds, t \in IssuesOf(elem), rnd \in RandomIds :
       /\ calls[p].pc = "idle"
       /\ LET c == [IdleCall EXCEPT !.pc = "run", !.type = t, !.prev = lastDone[t],
                                    !.reverted = revertedSince[t],
                                    !.afterAlt = (altWriteCount > 0)]
          IN IF AlreadyProcessed(transformedElements, t)
             THEN ReturnsEarly(p, c) /\ UNCHANGED <<captionRequests, requestAfterAlt>>
             ELSE IF t = MISSING_ALT_TEXT
             THEN AltTextEntry(p, c)
             ELSE /\ Completes(p, c, Handler(elem, t, rnd))
                  /\ UNCHANGED <<altWrites, altWriteCount, captionRequests,
                                 requestAfterAlt>>
  /\ starts' = starts + 1
  /\ UNCHANGED <<elem, apiKey, image, reverts, visionEnds>>
  /\ UNCHANGED nonEngVars

\* The wait of addAltText on the picture ends: by its load event, by its error
\* event, or by the 1500 ms timer.  A call that entered the wait later has
\* replaced img.onload and img.onerror, so the earlier call resumes on its timer.
ImageSettled ==
  \E p \in PassIds :
    /\ calls[p].pc = "loadWait"
    /\ \E img \in (IF image = "loading" THEN {"loading", "loaded", "broken"}
                   ELSE {image}) :
         /\ image' = img
         /\ AfterImageWait(p, calls[p], img)
    /\ UNCHANGED <<elem, apiKey, starts, reverts, visionEnds>>
    /\ UNCHANGED nonEngVars

OneMoreAttempt(attempt) == attempt + 1 < VISION_API_RETRIES + 1

\* for (let attempt = 0; attempt < this.VISION_API_RETRIES; attempt++), and the
\* same test before the back-off: another attempt follows this one
AttemptsLeft(attempt) == attempt + 1 < VISION_API_RETRIES

\* analyzeImageWithVision returns: what it returned, the attempts it made and
\* whether the last one ended by the abort of its timer
VisionEnds(p, text, timedOut) ==
  visionEnds' = visionEnds \cup {[text |-> text, attempts |-> calls[p].attempt + 1,
                                  timedOut |-> timedOut]}

\* fetch() of analyzeImageWithVision settles: with a description, with an error
\* or an empty answer (retried after a back-off while attempts are left), or
\* by the abort of the 10 s timer (not retried).
FetchSettled ==
  \E p \in PassIds :
    /\ calls[p].pc = "fetch"
    /\ \E answer \in {"text", "error", "abort"} :
         CASE answer = "text" ->
                /\ WritesAlt(p, calls[p], "Mountain bike on a trail", "text")
                /\ VisionEnds(p, "Mountain bike on a trail", FALSE)
           [] answer = "abort" ->
                /\ WritesAlt(p, calls[p], "", "failed")
                /\ VisionEnds(p, "", TRUE)
           [] OTHER ->
                IF AttemptsLeft(calls[p].attempt)
                THEN /\ Suspends(p, calls[p], "backoff", calls[p].attempt)
                     /\ UNCHANGED visionEnds
                ELSE /\ WritesAlt(p, calls[p], "", "failed")
                     /\ VisionEnds(p, "", FALSE)
    /\ UNCHANGED <<elem, apiKey, image, starts, reverts, captionRequests,
                   requestAfterAlt>>
    /\ UNCHANGED nonEngVars

\* the back-off timer of analyzeImageWithVision fires: next attempt
BackoffDone ==
  \E p \in PassIds :
    /\ calls[p].pc = "backoff"
    /\ Suspends(p, calls[p], "fetch", calls[p].attempt + 1)
    /\ UNCHANGED <<elem, apiKey, image, starts, reverts, captionRequests,
                   requestAfterAlt, visionEnds>>
    /\ UNCHANGED nonEngVars

\* The page takes an attribute off the element again, whoever set it.
PageRemovesAttribute ==
  /\ reverts < MaxReverts
  /\ \E a \in AttrNames :
       /\ hasAttribute(attrs, a)
       /\ attrs' = [attrs EXCEPT ![a] = Null]
  /\ reverts' = reverts + 1
  /\ revertedSince' = [t \in IssueTypes |-> TRUE]
  /\ UNCHANGED <<elem, apiKey, image, keyboardHandlers, keydownListeners,
                 transformedElements, calls, starts, captionRequests, logsReturned,
                 lastDone, pairs>>
  /\ UNCHANGED altVars
  /\ UNCHANGED nonEngVars

\* new TransformationEngine(), and an element of kind k it has not seen
EngInit(k, key) ==
  /\ elem = k
  /\ apiKey = key
  /\ image = IF tagName(k) = "img" THEN "loading" ELSE "none"
  /\ attrs = InitialAttrs(k)
  /\ keyboardHandlers = FALSE
  /\ keydownListeners = 0
  /\ transformedElements = {}
  /\ calls = [p \in PassIds |-> IdleCall]
  /\ starts = 0
  /\ reverts = 0
  /\ captionRequests = 0
  /\ logsReturned = [t \in IssueTypes |-> 0]
  /\ lastDone = [t \in IssueTypes |-> "none"]
  /\ revertedSince = [t \in IssueTypes |-> FALSE]
  /\ pairs = {}
  /\ altWrites = {}
  /\ altWriteCount = 0
  /\ visionEnds = {}
  /\ requestAfterAlt = FALSE
  /\ logAfterAlt = FALSE
  /\ lateCallDone = FALSE

NextEngine ==
  \/ TransformStart
  \/ ImageSettled
  \/ FetchSettled
  \/ BackoffDone
  \/ PageRemovesAttribute

\* ==================================================================== DOMScanner
P0 == 0
P1 == 1
P2 == 2

Priorities == {P0, P1, P2}

\* the issues a scan can push: element, type and priority; `id` is the identity
\* of the issue object, its position in the order of detection
IssueCandidates ==
  [element : {"n1", "n2"}, type : {MISSING_ALT_TEXT, UNLABELED_FORM_ELEMENT},
   priority : Priorities]

Detections ==
  UNION { [1..n -> IssueCandidates] : n \in 0..MaxIssues }

Identified(found) ==
  [i \in 1..Len(found) |->
     [element |-> found[i].element, type |-> found[i].type,
      priority |-> found[i].priority, id |-> i]]

\* deduplicateIssues: the first issue of each (element, type) stays
RECURSIVE DedupIssuesFrom(_, _)
DedupIssuesFrom(list, seen) ==
  IF list = << >> THEN << >>
  ELSE LET issue == Head(list)
           key == <<issue.element, issue.type>>
       IN IF key \in seen THEN DedupIssuesFrom(Tail(list), seen)
          ELSE <<issue>> \o DedupIssuesFrom(Tail(list), seen \cup {key})

\* the list as the detectors pushed it
KeepAllIssues(list) == list

deduplicateIssues(list) == DedupIssuesFrom(list, {})

\* (a, b) => b.priority - a.priority
ByPriorityDescending(a, b) == b.priority - a.priority

\* (a, b) => a.priority - b.priority
ByPriority(a, b) == a.priority - b.priority

\* an insertion that puts x before the elements it compares equal to
InsertBeforeEqual(sorted, x) ==
  LET before == { i \in 1..Len(sorted) : ByPriority(x, sorted[i]) <= 0 }
      at == IF before = {} THEN Len(sorted) + 1
            ELSE CHOOSE i \in before : \A j \in before : i <= j
  IN SubSeq(sorted, 1, at - 1) \o <<x>> \o SubSeq(sorted, at, Len(sorted))

\* Array.prototype.sort is stable (ECMAScript 2019, V8 7.0): x goes before the
\* first element that must follow it, behind the elements it compares equal to
InsertSorted(sorted, x) ==
  LET before == { i \in 1..Len(sorted) : ByPriority(x, sorted[i]) < 0 }
      at == IF before = {} THEN Len(sorted) + 1
            ELSE CHOOSE i \in before : \A j \in before : i <= j
  IN SubSeq(sorted, 1, at - 1) \o <<x>> \o SubSeq(sorted, at, Len(sorted))

RECURSIVE SortFrom(_, _)
SortFrom(list, sorted) ==
  IF list = << >> THEN sorted
  ELSE SortFrom(Tail(list), InsertSorted(sorted, Head(list)))

\* uniqueIssues.sort((a, b) => a.priority - b.priority)
SortByPriority(list) == SortFrom(list, << >>)

\* scanner.scan(document.body) of scanAndTransform returns
Scan ==
  /\ pc = "scan"
  /\ issues' = SortByPriority(deduplicateIssues(detected))
  /\ pc' = "loop"
  /\ UNCHANGED <<detected, cursor, inFlight, done, began, processedPairs, results>>
  /\ UNCHANGED nonScanVars

\* the for loop of scanAndTransform calls transform for its next issue
TransformBegins ==
  /\ pc = "loop"
  /\ ~inFlight
  /\ cursor <= Len(issues)
  /\ inFlight' = TRUE
  /\ began' = Append(began, [issue |-> cursor, done |-> done])
  /\ UNCHANGED <<detected, issues, pc, cursor, done, processedPairs, results>>
  /\ UNCHANGED nonScanVars

\* the elements of the scanned page: two <input type="image"> without alt and
\* without label, n2 with an id that closes the quoted string of a selector
KindOf(element) == IF element = "n2" THEN "inputBadId" ELSE "input"

\* the handler of the issue throws: addFormLabel at its querySelector
Throws(issue) ==
  issue.type = UNLABELED_FORM_ELEMENT /\ SelectorThrows(KindOf(issue.element))

\* what transform(issue) gives: null for a recorded pair, null from its catch
\* when the handler threw, else the handler's log
TransformResult(issue, processed) ==
  IF <<issue.element, issue.type>> \in processed THEN "null"
  ELSE IF Throws(issue) THEN "threw"
  ELSE "log"

\* a loop that leaves at the first failure
LeaveAtFailure(at, out, n) == IF out = "threw" THEN n + 1 ELSE at + 1

\* for (const issue of issues) { try { ... } catch (error) { ... } }
NextIssue(at, out, n) == at + 1

\* the awaited transform returns, after its own catch when the handler threw
TransformSettles ==
  /\ pc = "loop"
  /\ inFlight
  /\ LET issue == issues[cursor]
         out == TransformResult(issue, processedPairs)
     IN /\ processedPairs' = IF out = "threw" THEN processedPairs
                              ELSE processedPairs \cup {<<issue.element, issue.type>>}
        /\ results' = Append(results, [issue |-> cursor, out |-> out])
        /\ cursor' = NextIssue(cursor, out, Len(issues))
  /\ inFlight' = FALSE
  /\ done' = done \cup {cursor}
  /\ UNCHANGED <<detected, issues, pc, began>>
  /\ UNCHANGED nonScanVars

\* after the loop: ariaManager.applyARIA(document.body) ends the pass
ApplyARIA ==
  /\ pc = "loop"
  /\ ~inFlight
  /\ cursor > Len(issues)
  /\ pc' = "applied"
  /\ UNCHANGED <<detected, issues, cursor, inFlight, done, began, processedPairs,
                 results>>
  /\ UNCHANGED nonScanVars

\* scanAndTransform is entered, with `found` what the detectors will push
ScanInit(found) ==
  /\ detected = Identified(found)
  /\ issues = << >>
  /\ pc = "scan"
  /\ cursor = 1
  /\ inFlight = FALSE
  /\ done = {}
  /\ began = << >>
  /\ processedPairs = {}
  /\ results = << >>

NextScan ==
  \/ Scan
  \/ TransformBegins
  \/ TransformSettles
  \/ ApplyARIA



\* =================================================================== ARIAManager
\* The subtree applyARIA is given: box > c1, c2, in document order.
AriaNodes == {"box", "c1", "c2"}

Descendants(n) == IF n = "box" THEN {"c1", "c2"} ELSE {}

Ancestors(n) == IF n = "box" THEN {} ELSE {"box"}

\* document order among the descendants of box
FirstOf(set) == IF "c1" \in set THEN "c1" ELSE "c2"

LongText == "Read the full terms of the offer before you go on to pay"

Plain ==
  [tag |-> "div", id |-> "", class |-> "", text |-> "", title |-> "",
   position |-> "static", style |-> "", required |-> FALSE, disabled |-> FALSE,
   onclick |-> FALSE, role |-> Null, nearTop |-> FALSE, nearBottom |-> FALSE]

\* what a node of the subtree can be
\* modalOff, toastLoose and collapseOff ship with aria-modal="false",
\* aria-atomic="false" and tabindex="-1"
BoxKinds == {"card", "navbar", "modal", "modalOff", "content", "sidebar", "errorGroup"}
LeafKinds ==
  {"link", "btn", "iconBtn", "toast", "toastLoose", "alert", "field", "collapse",
   "collapseOff", "hidden", "tabActive", "submitOff", "header", "footer", "post",
   "searchForm"}

Markup(k) ==
  CASE k = "card" -> [Plain EXCEPT !.class = "card", !.onclick = TRUE, !.text = LongText]
    [] k = "navbar" -> [Plain EXCEPT !.class = "navbar"]
    [] k \in {"modal", "modalOff"} ->
         [Plain EXCEPT !.class = "modal", !.position = "fixed"]
    [] k = "content" -> [Plain EXCEPT !.id = "content", !.text = LongText \o LongText]
    [] k = "sidebar" -> [Plain EXCEPT !.class = "sidebar"]
    [] k = "errorGroup" -> [Plain EXCEPT !.class = "form-row error"]
    [] k = "link" -> [Plain EXCEPT !.tag = "a", !.text = "Home"]
    [] k = "btn" -> [Plain EXCEPT !.tag = "span", !.class = "btn", !.text = "OK"]
    [] k = "iconBtn" -> [Plain EXCEPT !.tag = "span", !.class = "icon button"]
    [] k \in {"toast", "toastLoose"} ->
         [Plain EXCEPT !.class = "toast", !.text = "Saved"]
    [] k = "alert" -> [Plain EXCEPT !.role = "alert", !.text = "Failed"]
    [] k = "field" -> [Plain EXCEPT !.tag = "input", !.required = TRUE]
    [] k = "collapse" -> [Plain EXCEPT !.class = "collapse"]
    [] k = "collapseOff" -> [Plain EXCEPT !.class = "collapse", !.onclick = TRUE]
    [] k = "hidden" -> [Plain EXCEPT !.style = "display: none"]
    [] k = "tabActive" -> [Plain EXCEPT !.tag = "li", !.class = "active", !.role = "tab"]
    [] k = "submitOff" -> [Plain EXCEPT !.tag = "button", !.disabled = TRUE,
                                        !.text = "Send"]
    [] k = "header" -> [Plain EXCEPT !.class = "header", !.nearTop = TRUE]
    [] k = "footer" -> [Plain EXCEPT !.id = "footer", !.nearBottom = TRUE]
    [] k = "post" -> [Plain EXCEPT !.class = "post"]
    [] OTHER -> [Plain EXCEPT !.tag = "form", !.id = "site-search"]

AriaNames ==
  {"role", "aria-label", "aria-labelledby", "aria-modal", "aria-expanded",
   "aria-hidden", "aria-selected", "aria-disabled", "aria-live", "aria-atomic",
   "aria-required", "aria-invalid", "tabindex"}

MarkupOf == [k \in BoxKinds \cup LeafKinds |-> Markup(k)]

\* the value of an attribute the markup of a node ships with
Shipped(k, name) ==
  CASE name = "role" -> MarkupOf[k].role
    [] name = "aria-modal" /\ k = "modalOff" -> "false"
    [] name = "aria-atomic" /\ k = "toastLoose" -> "false"
    [] name = "tabindex" /\ k = "collapseOff" -> "-1"
    [] OTHER -> Null

\* [style*="display: none"], [style*="visibility: hidden"]
StyleHides ==
  [k \in BoxKinds \cup LeafKinds |->
     Includes(Markup(k).style, "display: none")
       \/ Includes(Markup(k).style, "visibility: hidden")]

M(n) == MarkupOf[markup[n]]

\* the words the selectors of ARIAManager look for in class and id
SelectorWords ==
  {"nav", "navbar", "navigation", "main", "main-content", "modal", "dialog", "popup",
   "overlay", "search", "btn", "button", "collapse", "expand", "accordion",
   "dropdown", "selected", "active", "current", "disabled", "alert", "notification",
   "toast", "error", "header", "site-header", "footer", "site-footer", "sidebar",
   "aside", "article", "post", "entry"}

\* per kind of node: the words its class has as a token, the words its class
\* includes, the words its id includes
ClassTokens ==
  [k \in BoxKinds \cup LeafKinds |->
     {w \in SelectorWords : Includes(" " \o Markup(k).class \o " ", " " \o w \o " ")}]

ClassParts ==
  [k \in BoxKinds \cup LeafKinds |->
     {w \in SelectorWords : Includes(Markup(k).class, w)}]

IdParts ==
  [k \in BoxKinds \cup LeafKinds |-> {w \in SelectorWords : Includes(Markup(k).id, w)}]

\* [class~="token"] and .token
ClassHas(n, token) == token \in ClassTokens[markup[n]]

\* [class*="part"], [id*="part"]
ClassIncludes(n, part) == part \in ClassParts[markup[n]]
IdIncludes(n, part) == part \in IdParts[markup[n]]

\* the state of one applyARIA call: the attributes, processedElements, count
Has(s, n, name) == s.attrs[n][name] # Null

Set(s, n, name, value) == [s EXCEPT !.attrs[n][name] = value]

Counted(s, k) == [s EXCEPT !.count = @ + k]

\* Each forEach below visits box, c1, c2 in document order; the selector of a
\* loop is tested inside its callback, on attributes the loop does not write.

\* clone.textContent.trim() without script and style
getCleanTextContent(n) ==
  IF n = "box" THEN M("box").text \o M("c1").text \o M("c2").text ELSE M(n).text

\* el.querySelectorAll('a').length >= 2
looksLikeNavigation(n) ==
  Cardinality({d \in Descendants(n) : M(d).tag = "a"}) >= 2

\* textContent.trim().length > 100
looksLikeMain(n) == Len(getCleanTextContent(n)) > 100

\* rect.top < 200
looksLikeHeader(n) == M(n).nearTop

\* rect.bottom > docHeight - 500
looksLikeFooter(n) == M(n).nearBottom

\* DOMUtils.isVisible
isVisible(n) == ~StyleHides[markup[n]]

\* DOMUtils.isInteractive
isInteractive(s, n) ==
  \/ M(n).tag \in {"button", "a", "input", "select", "textarea"}
  \/ M(n).onclick
  \/ Has(s, n, "role")
  \/ Has(s, n, "tabindex")

\* inferLabel: the text, a child image's alt (the subtree has no image), the
\* aria-label of the first descendant that has one, the title, data-* (none)
inferLabel(s, n) ==
  LET textContent_ == getCleanTextContent(n)
      labelled == {d \in Descendants(n) : Has(s, d, "aria-label")}
  IN IF Len(textContent_) > 0 /\ Len(textContent_) <= 50 THEN textContent_
     ELSE IF labelled # {} /\ s.attrs[FirstOf(labelled)]["aria-label"] # ""
     THEN s.attrs[FirstOf(labelled)]["aria-label"]
     ELSE IF M(n).title # "" /\ Len(M(n).title) <= 50 THEN M(n).title
     ELSE Null

applyRoles(s0) ==
  LET nav(s, n) ==
        IF /\ M(n).tag # "nav"
           /\ \/ \E c \in {"nav", "navbar", "navigation"} : ClassHas(n, c)
              \/ M(n).id \in {"nav", "navbar", "navigation"}
           /\ ~Has(s, n, "role")
           /\ n \notin s.processed
           /\ looksLikeNavigation(n)
        THEN [Counted(Set(s, n, "role", "navigation"), 1)
                EXCEPT !.processed = @ \cup {n}]
        ELSE s
      main(s, n) ==
        IF /\ M(n).tag # "main"
           /\ \/ \E c \in {"main", "main-content"} : ClassHas(n, c)
              \/ M(n).id \in {"main", "main-content", "content"}
           /\ ~Has(s, n, "role")
           /\ looksLikeMain(n)
        THEN Counted(Set(s, n, "role", "main"), 1)
        ELSE s
      dialog(s, n) ==
        IF /\ \E c \in {"modal", "dialog", "popup", "overlay"} : ClassIncludes(n, c)
           /\ ~Has(s, n, "role")
           /\ M(n).position \in {"fixed", "absolute"}
        THEN Counted(Set(Set(s, n, "role", "dialog"), n, "aria-modal", "true"), 2)
        ELSE s
      search(s, n) ==
        IF /\ M(n).tag = "form"
           /\ ClassIncludes(n, "search") \/ IdIncludes(n, "search")
           /\ ~Has(s, n, "role")
        THEN Counted(Set(s, n, "role", "search"), 1)
        ELSE s
      button(s, n) ==
        IF /\ \E c \in {"btn", "button"} : ClassIncludes(n, c) \/ IdIncludes(n, c)
           /\ M(n).tag # "button"
           /\ ~Has(s, n, "role")
        THEN Counted(Set(s, n, "role", "button"), 1)
        ELSE s
      s1 == nav(nav(nav(s0, "box"), "c1"), "c2")
      s2 == main(main(main(s1, "box"), "c1"), "c2")
      s3 == dialog(dialog(dialog(s2, "box"), "c1"), "c2")
      s4 == search(search(search(s3, "box"), "c1"), "c2")
      s5 == button(button(button(s4, "box"), "c1"), "c2")
  IN s5

applyLabels(s0) ==
  LET label(s, n) ==
        IF /\ \/ M(n).tag \in {"button", "a", "input", "select", "textarea"}
              \/ s0.attrs[n]["role"] = "button"
              \/ M(n).onclick
           /\ n \notin s.processed
           /\ ~Has(s, n, "aria-label")
           /\ ~Has(s, n, "aria-labelledby")
           /\ M(n).title = ""
           /\ inferLabel(s, n) # Null
        THEN [Counted(Set(s, n, "aria-label", inferLabel(s, n)), 1)
                EXCEPT !.processed = @ \cup {n}]
        ELSE s
      s1 == label(label(label(s0, "box"), "c1"), "c2")
  IN s1

applyStates(s0) ==
  LET expandable(s, n) ==
        IF /\ \E c \in {"collapse", "expand", "accordion", "dropdown"} :
                ClassIncludes(n, c)
           /\ ~Has(s, n, "aria-expanded")
        THEN LET t == Counted(Set(s, n, "aria-expanded",
                                  IF isVisible(n) THEN "true" ELSE "false"), 1)
             IN IF ~Has(t, n, "tabindex") /\ isInteractive(t, n)
                THEN Set(t, n, "tabindex", "0") ELSE t
        ELSE s
      hidden(s, n) ==
        IF /\ StyleHides[markup[n]]
           /\ ~Has(s, n, "aria-hidden")
        THEN Counted(Set(s, n, "aria-hidden", "true"), 1)
        ELSE s
      selected(s, n) ==
        IF /\ \/ ClassIncludes(n, "selected")
              \/ ClassIncludes(n, "active")
              \/ ClassHas(n, "current")
           /\ ~Has(s, n, "aria-selected")
           /\ s.attrs[n]["role"] \in {"tab", "option", "menuitem"}
        THEN Counted(Set(s, n, "aria-selected", "true"), 1)
        ELSE s
      disabled(s, n) ==
        IF /\ M(n).disabled \/ ClassIncludes(n, "disabled")
           /\ ~Has(s, n, "aria-disabled")
        THEN Counted(Set(s, n, "aria-disabled", "true"), 1)
        ELSE s
      s1 == expandable(expandable(expandable(s0, "box"), "c1"), "c2")
      s2 == hidden(hidden(hidden(s1, "box"), "c1"), "c2")
      s3 == selected(selected(selected(s2, "box"), "c1"), "c2")
      s4 == disabled(disabled(disabled(s3, "box"), "c1"), "c2")
  IN s4

applyProperties(s0) ==
  LET live(s, n) ==
        IF /\ \/ \E c \in {"alert", "notification", "toast"} : ClassIncludes(n, c)
              \/ s.attrs[n]["role"] \in {"alert", "status"}
           /\ ~Has(s, n, "aria-live")
        THEN Counted(Set(Set(s, n, "aria-live",
                             IF s.attrs[n]["role"] = "alert" THEN "assertive"
                             ELSE "polite"),
                         n, "aria-atomic", "true"), 2)
        ELSE s
      required(s, n) ==
        IF /\ M(n).tag \in {"input", "select", "textarea"}
           /\ M(n).required
           /\ ~Has(s, n, "aria-required")
        THEN Counted(Set(s, n, "aria-required", "true"), 1)
        ELSE s
      invalid(s, n) ==
        IF /\ M(n).tag \in {"input", "select", "textarea"}
           /\ \E a \in Ancestors(n) : ClassHas(a, "error")
           /\ ~Has(s, n, "aria-invalid")
        THEN Counted(Set(s, n, "aria-invalid", "true"), 1)
        ELSE s
      s1 == live(live(live(s0, "box"), "c1"), "c2")
      s2 == required(required(required(s1, "box"), "c1"), "c2")
      s3 == invalid(invalid(invalid(s2, "box"), "c1"), "c2")
  IN s3

applyLandmarks(s0) ==
  LET header(s, n) ==
        IF /\ M(n).tag # "header"
           /\ \/ \E c \in {"header", "site-header"} : ClassHas(n, c)
              \/ M(n).id \in {"header", "site-header"}
           /\ ~Has(s, n, "role")
           /\ looksLikeHeader(n)
        THEN Counted(Set(s, n, "role", "banner"), 1)
        ELSE s
      footer(s, n) ==
        IF /\ M(n).tag # "footer"
           /\ \/ \E c \in {"footer", "site-footer"} : ClassHas(n, c)
              \/ M(n).id \in {"footer", "site-footer"}
           /\ ~Has(s, n, "role")
           /\ looksLikeFooter(n)
        THEN Counted(Set(s, n, "role", "contentinfo"), 1)
        ELSE s
      aside(s, n) ==
        IF /\ M(n).tag # "aside"
           /\ \/ \E c \in {"sidebar", "aside"} : ClassHas(n, c)
              \/ M(n).id \in {"sidebar", "aside"}
           /\ ~Has(s, n, "role")
        THEN Counted(Set(s, n, "role", "complementary"), 1)
        ELSE s
      article(s, n) ==
        IF /\ M(n).tag # "article"
           /\ \E c \in {"article", "post", "entry"} : ClassHas(n, c)
           /\ ~Has(s, n, "role")
        THEN Counted(Set(s, n, "role", "article"), 1)
        ELSE s
      s1 == header(header(header(s0, "box"), "c1"), "c2")
      s2 == footer(footer(footer(s1, "box"), "c1"), "c2")
      s3 == aside(aside(aside(s2, "box"), "c1"), "c2")
      s4 == article(article(article(s3, "box"), "c1"), "c2")
  IN s4

\* applyARIA(root): the five steps in order; the result's count is returned
applyARIA(s) ==
  applyLandmarks(applyProperties(applyStates(applyLabels(applyRoles(
    [s EXCEPT !.count = 0])))))

\* scanAndTransform or onDOMChange calls ariaManager.applyARIA on the subtree
ApplyARIAToSubtree ==
  /\ Len(sweeps) < MaxSweeps
  /\ LET after == applyARIA([attrs |-> ariaAttrs, processed |-> processedElements,
                             count |-> 0])
     IN /\ ariaAttrs' = after.attrs
        /\ processedElements' = after.processed
        /\ sweeps' = Append(sweeps,
                            [count |-> after.count,
                             added |-> {w \in AriaNodes \X AriaNames :
                                          /\ ariaAttrs[w[1]][w[2]] = Null
                                          /\ after.attrs[w[1]][w[2]] # Null},
                             changed |-> {w \in AriaNodes \X AriaNames :
                                            /\ ariaAttrs[w[1]][w[2]] # Null
                                            /\ after.attrs[w[1]][w[2]] #
                                                 ariaAttrs[w[1]][w[2]]},
                             untouched |-> ~dirty])
  /\ dirty' = FALSE
  /\ UNCHANGED <<markup, pageEdits>>
  /\ UNCHANGED nonAriaVars

\* the page takes an attribute off a node of the subtree
PageEditsSubtree ==
  /\ pageEdits < MaxPageEdits
  /\ \E n \in AriaNodes, name \in AriaNames :
       /\ ariaAttrs[n][name] # Null
       /\ ariaAttrs' = [ariaAttrs EXCEPT ![n][name] = Null]
  /\ dirty' = TRUE
  /\ pageEdits' = pageEdits + 1
  /\ UNCHANGED <<markup, processedElements, sweeps>>
  /\ UNCHANGED nonAriaVars

\* new ARIAManager(), and the subtree as the page ships it
AriaInit(box, c1, c2) ==
  /\ markup = [n \in AriaNodes |-> IF n = "box" THEN box ELSE IF n = "c1" THEN c1 ELSE c2]
  /\ ariaAttrs = [n \in AriaNodes |->
                    [name \in AriaNames |-> Shipped(markup[n], name)]]
  /\ processedElements = {}
  /\ sweeps = << >>
  /\ dirty = FALSE
  /\ pageEdits = 0

NextAria ==
  \/ ApplyARIAToSubtree
  \/ PageEditsSubtree

\* ==================================================== DOMScanner.scan, validator
\* scan(root) as its callers see it: the validator first, unless one is running or
\* the root is detached, then the synchronous detectors. scanAndTransform calls it
\* on document.body, onDOMChange on every element a batch added.

\* The page of these scans: body > n1 > n2, where n2 is a <div onclick=...>
\* without role and tabindex, on which the validator reports color-contrast.
LOW_CONTRAST == "low-contrast"

ClickableDivs == {"n2"}

\* runAxeCore(root): the violations of the root's subtree, mapped to issues
AxeIssues(root) ==
  { <<e, LOW_CONTRAST>> : e \in Subtree(root) \cap ClickableDivs }

\* the elements scanAllElements(root) does not return from at once (line 95)
VisitedBy(root, processed) ==
  { e \in (Subtree(root) \ {root}) \cap ClickableDivs : e \notin processed }

\* scanAllElements(root) under processedElements = processed: the issues
\* (the sampled emphasis check left out)
scanAllElements(root, processed) ==
  { <<e, NON_SEMANTIC_BUTTON>> : e \in VisitedBy(root, processed) } \cup
  { <<e, MISSING_KEYBOARD_ACCESS>> : e \in VisitedBy(root, processed) }

\* what scan(root) returns from the DOM alone
IssuesOfSubtree(root, connected) ==
  (IF root \in connected THEN AxeIssues(root) ELSE {}) \cup scanAllElements(root, {})

\* the condition under which scan() awaits runAxeCore(root)
RunsValidator(running, connected, root) == ~running /\ root \in connected

\* scan(root), up to its first suspension or, without one, to its return
ScanCall(root, caller) ==
  LET runs == RunsValidator(axeRunning, isConnected, root) IN
  /\ Len(scanCalls) < MaxScanCalls
  /\ scanCalls' = Append(scanCalls,
                     [root |-> root, caller |-> caller, axe |-> runs,
                      at |-> IF runs THEN "axe.run" ELSE "returned",
                      connected |-> root \in isConnected,
                      alone |-> ~axeRunning,
                      issues |-> IF runs THEN {} ELSE scanAllElements(root, {})])
  /\ axeRunning' = (axeRunning \/ runs)
  /\ scannerProcessed' = IF runs THEN {} ELSE VisitedBy(root, {})
  /\ UNCHANGED isConnected

\* scanAndTransform: the whole-document scan of initialize()
ScanAndTransformScans ==
  /\ scanCalls = << >>
  /\ ScanCall("body", "scanAndTransform")
  /\ UNCHANGED nonAxeVars

\* onDOMChange: the scan of one added element; the watcher runs only once
\* scanAndTransform has returned, and its passes are not awaited
OnDOMChangeScans ==
  /\ scanCalls # << >>
  /\ scanCalls[1].at = "returned"
  /\ \E element \in {"n1", "n2"} : ScanCall(element, "onDOMChange")
  /\ UNCHANGED nonAxeVars

\* axe.run settles either way; runAxeCore's finally, then the rest of scan()
AxeSettles ==
  /\ \E i \in 1..Len(scanCalls) :
       /\ scanCalls[i].at = "axe.run"
       /\ scanCalls' = [scanCalls EXCEPT
            ![i].at = "returned",
            ![i].alone = (scanCalls[i].alone /\ i = Len(scanCalls)),
            ![i].issues = AxeIssues(scanCalls[i].root) \cup
                            scanAllElements(scanCalls[i].root, scannerProcessed)]
       /\ scannerProcessed' =
            scannerProcessed \cup VisitedBy(scanCalls[i].root, scannerProcessed)
  /\ axeRunning' = FALSE
  /\ UNCHANGED isConnected
  /\ UNCHANGED nonAxeVars

\* the page attaches or detaches one of its elements
PageReparents ==
  /\ \E element \in {"n1", "n2"} :
       isConnected' = IF element \in isConnected
                      THEN isConnected \ {element}
                      ELSE isConnected \cup {element}
  /\ UNCHANGED <<axeRunning, scanCalls, scannerProcessed>>
  /\ UNCHANGED nonAxeVars

AxeInit ==
  /\ axeRunning = FALSE
  /\ isConnected = {"body", "n1", "n2"}
  /\ scanCalls = << >>
  /\ scannerProcessed = {}

NextAxe ==
  \/ ScanAndTransformScans
  \/ OnDOMChangeScans
  \/ AxeSettles
  \/ PageReparents

\* ================================================================ AURA: the log
\* the list without its first entry once it has grown past the capacity
DropNewest(list) ==
  IF Len(list) > MAX_LOGS THEN SubSeq(list, 2, Len(list)) ELSE list

\* this.stats.logs.slice(0, 50) when the list has grown past 50
TruncateLogs(list) ==
  IF Len(list) > MAX_LOGS THEN SubSeq(list, 1, MAX_LOGS) ELSE list

\* addLog(log)
AddLog ==
  /\ logged < MaxLogged
  /\ logged' = logged + 1
  /\ logs' = TruncateLogs(<<logged'>> \o logs)
  /\ UNCHANGED loggedAtClear
  /\ UNCHANGED nonLogVars

\* the CLEAR_LOGS message
ClearLogs ==
  /\ logs # << >>
  /\ logs' = << >>
  /\ loggedAtClear' = logged
  /\ UNCHANGED logged
  /\ UNCHANGED nonLogVars

\* stats.logs of a new AURA
LogInit ==
  /\ logs = << >>
  /\ logged = 0
  /\ loggedAtClear = 0

NextLog ==
  \/ AddLog
  \/ ClearLogs


\* ==================================================== AURA: bootstrap, initialize
\* phase of a page load:
\*   "reading"      chrome.storage.local.get is pending
\*   "domLoading"   enabled, waiting for DOMContentLoaded
\*   "scanning"     initialize() awaits scanner.scan inside scanAndTransform
\*   "remediating"  the transform loop of scanAndTransform
\*   "sweeping"     scanAndTransform awaits ariaManager.applyARIA
\*   "running"      initialize() finished
\*   "inert"        initialize() caught an error
\*   "disabled"     new AURA(false): the instance only answers messages

\* the flag taken to be on whatever is stored
AlwaysEnabled(flag) == TRUE

\* result.enabled !== undefined ? result.enabled : true
EnabledFrom(flag) == flag # "false"

\* this.initialized set whether or not observer.start() returned
InitializedRegardless(startThrew) == TRUE

\* this.initialized = true follows observer.start() inside the try block
InitializedAfterStart(startThrew) == ~startThrew

InstanceExists == phase \notin {"reading", "domLoading"}

\* new AURA(true) and initialize() up to the first await of scanAndTransform:
\* convertEmphasisTags replaces every <b> and <i>, removeYouTubeTexts rewrites
\* the text nodes that hold the two titles
EntersInitialize ==
  /\ phase' = "scanning"
  /\ initAttempts' = initAttempts + 1
  /\ nodesReplaced' = (nodesReplaced \/ hasEmphasisTags)
  /\ textChanged' = (textChanged \/ hasYouTubeText)

\* the callback of chrome.storage.local.get(['enabled'])
StorageRead ==
  /\ phase = "reading"
  /\ flagAtLoad' = stored
  /\ enabled' = EnabledFrom(stored)
  /\ IF enabled'
     THEN \E loading \in BOOLEAN :
            IF loading
            THEN /\ phase' = "domLoading"
                 /\ UNCHANGED <<initAttempts, nodesReplaced, textChanged>>
            ELSE EntersInitialize
     ELSE /\ phase' = "disabled"
          /\ UNCHANGED <<initAttempts, nodesReplaced, textChanged>>
  /\ UNCHANGED <<stored, initialized, reloadPending, loads, hasEmphasisTags,
                 hasYouTubeText, didScan, didRemediate, didSweep, initFailed>>
  /\ UNCHANGED <<observer, observed, isObserving>>
  /\ UNCHANGED nonBootVars

\* the DOMContentLoaded listener of the bootstrap
DOMContentLoaded ==
  /\ phase = "domLoading"
  /\ EntersInitialize
  /\ UNCHANGED <<stored, flagAtLoad, enabled, initialized, reloadPending, loads,
                 hasEmphasisTags, hasYouTubeText, didScan, didRemediate, didSweep,
                 initFailed>>
  /\ UNCHANGED <<observer, observed, isObserving>>
  /\ UNCHANGED nonBootVars

\* scanner.scan(document.body) returns its list or throws into the catch of
\* initialize
ScanSettles ==
  /\ phase = "scanning"
  /\ didScan' = TRUE
  /\ \E threw \in BOOLEAN :
       /\ phase' = IF threw THEN "inert" ELSE "remediating"
       /\ initFailed' = (initFailed \/ threw)
  /\ UNCHANGED <<stored, flagAtLoad, enabled, initialized, reloadPending, loads,
                 hasEmphasisTags, hasYouTubeText, nodesReplaced, textChanged,
                 didRemediate, didSweep, initAttempts>>
  /\ UNCHANGED <<observer, observed, isObserving>>
  /\ UNCHANGED nonBootVars

\* the loop over the issues: every error of a transform stays in its try block
RemediationDone ==
  /\ phase = "remediating"
  /\ didRemediate' = TRUE
  /\ phase' = "sweeping"
  /\ UNCHANGED <<stored, flagAtLoad, enabled, initialized, reloadPending, loads,
                 hasEmphasisTags, hasYouTubeText, nodesReplaced, textChanged,
                 didScan, didSweep, initFailed, initAttempts>>
  /\ UNCHANGED <<observer, observed, isObserving>>
  /\ UNCHANGED nonBootVars

\* applyARIA settles; when it returned, initialize goes on to observer.start(),
\* whose observe() call may throw after this.observer has been assigned
SweepSettles ==
  /\ phase = "sweeping"
  /\ didSweep' = TRUE
  /\ \E outcome \in {"started", "sweepThrew", "startThrew"} :
       CASE outcome = "started" ->
              /\ ObserverStart
              /\ initialized' = InitializedAfterStart(FALSE)
              /\ phase' = "running"
              /\ UNCHANGED initFailed
         [] outcome = "sweepThrew" ->
              /\ UNCHANGED <<observer, observed, isObserving, initialized>>
              /\ phase' = "inert"
              /\ initFailed' = TRUE
         [] OTHER ->
              /\ observer' = "MutationObserver"
              /\ UNCHANGED <<observed, isObserving>>
              /\ initialized' = InitializedAfterStart(TRUE)
              /\ phase' = "inert"
              /\ initFailed' = TRUE
  /\ UNCHANGED <<stored, flagAtLoad, enabled, reloadPending, loads, hasEmphasisTags,
                 hasYouTubeText, nodesReplaced, textChanged, didScan, didRemediate,
                 initAttempts>>
  /\ UNCHANGED nonBootVars

\* the TOGGLE_ENABLED message: chrome.storage.local.set({enabled: !this.enabled})
\* and, in its callback, window.location.reload()
ToggleEnabled ==
  /\ InstanceExists
  /\ stored' = IF enabled THEN "false" ELSE "true"
  /\ reloadPending' = TRUE
  /\ UNCHANGED <<flagAtLoad, phase, enabled, initialized, loads, hasEmphasisTags,
                 hasYouTubeText, nodesReplaced, textChanged, didScan, didRemediate,
                 didSweep, initFailed, initAttempts>>
  /\ UNCHANGED <<observer, observed, isObserving>>
  /\ UNCHANGED nonBootVars

\* The browser reloads the page: the script and everything it set up are gone,
\* the document is the one the server ships, and the bootstrap runs again.
Reload ==
  /\ reloadPending
  /\ loads < MaxLoads
  /\ loads' = loads + 1
  /\ reloadPending' = FALSE
  /\ phase' = "reading"
  /\ flagAtLoad' = "unread"
  /\ enabled' = TRUE
  /\ initialized' = FALSE
  /\ nodesReplaced' = FALSE
  /\ textChanged' = FALSE
  /\ didScan' = FALSE
  /\ didRemediate' = FALSE
  /\ didSweep' = FALSE
  /\ initFailed' = FALSE
  /\ initAttempts' = 0
  /\ observer' = Null
  /\ observed' = NotObserved
  /\ isObserving' = FALSE
  /\ UNCHANGED <<stored, hasEmphasisTags, hasYouTubeText>>
  /\ UNCHANGED nonBootVars

\* a page load before the bootstrap's storage read has answered
BootInit(flag, emphasis, youtube) ==
  /\ stored = flag
  /\ flagAtLoad = "unread"
  /\ phase = "reading"
  /\ enabled = TRUE
  /\ initialized = FALSE
  /\ reloadPending = FALSE
  /\ loads = 1
  /\ hasEmphasisTags = emphasis
  /\ hasYouTubeText = youtube
  /\ nodesReplaced = FALSE
  /\ textChanged = FALSE
  /\ didScan = FALSE
  /\ didRemediate = FALSE
  /\ didSweep = FALSE
  /\ initFailed = FALSE
  /\ initAttempts = 0

NextAura ==
  \/ StorageRead
  \/ DOMContentLoaded
  \/ ScanSettles
  \/ RemediationDone
  \/ SweepSettles
  \/ ToggleEnabled
  \/ Reload


\* ============================================================ AURA: the statistics
\* statsPc of a page load:
\*   "fresh"         scanAndTransform has not been entered
\*   "initialScan"   scanAndTransform awaits scanner.scan(document.body)
\*   "initialLoop"   the transform loop of scanAndTransform
\*   "watching"      no pass is running
\*   "changeLoop"    the transform loop of onDOMChange for one element

\* <b> and <i> elements of the served document
MaxEmphasis == 2
\* issues one scanner.scan call returns
MaxFound == 2
\* onDOMChange calls of one page load that reach the scan
MaxChanges == 2
\* attributes one applyARIA sweep writes
MaxAria == 1

\* scanAndTransform up to its first await: convertEmphasisTags logs once and adds
\* the number of converted tags to issuesFixed
ScanAndTransformBegins ==
  /\ statsPc = "fresh"
  /\ \E convertedCount \in 0..MaxEmphasis :
       /\ logsAdded' = IF convertedCount > 0 THEN logsAdded + 1 ELSE logsAdded
       /\ issuesFixed' = IF convertedCount > 0 THEN issuesFixed + convertedCount
                                                ELSE issuesFixed
  /\ statsPc' = "initialScan"
  /\ UNCHANGED <<issuesFound, ariaAttributesAdded, loopLeft, changesHandled, scanned,
                 remedied>>
  /\ UNCHANGED nonStatsVars

\* scanner.scan(document.body) returns: this.stats.issuesFound += issues.length
InitialScanReturns ==
  /\ statsPc = "initialScan"
  /\ \E found \in 0..MaxFound :
       /\ issuesFound' = issuesFound + found
       /\ scanned' = scanned + found
       /\ loopLeft' = found
  /\ statsPc' = "initialLoop"
  /\ UNCHANGED <<issuesFixed, ariaAttributesAdded, logsAdded, changesHandled, remedied>>
  /\ UNCHANGED nonStatsVars

\* one turn of the loop of scanAndTransform: transform returns a log, returns
\* null or throws into the catch of the loop body
InitialTransform ==
  /\ statsPc = "initialLoop"
  /\ loopLeft > 0
  /\ loopLeft' = loopLeft - 1
  /\ \E outcome \in {"log", "null", "threw"} :
       IF outcome = "log"
       THEN /\ logsAdded' = logsAdded + 1
            /\ issuesFixed' = issuesFixed + 1
            /\ remedied' = remedied + 1
       ELSE UNCHANGED <<logsAdded, issuesFixed, remedied>>
  /\ UNCHANGED <<issuesFound, ariaAttributesAdded, statsPc, changesHandled, scanned>>
  /\ UNCHANGED nonStatsVars

\* the end of scanAndTransform: applyARIA(document.body), its log entry, its count
InitialSweep ==
  /\ statsPc = "initialLoop"
  /\ loopLeft = 0
  /\ \E ariaCount \in 0..MaxAria :
       /\ logsAdded' = IF ariaCount > 0 THEN logsAdded + 1 ELSE logsAdded
       /\ ariaAttributesAdded' = ariaAttributesAdded + ariaCount
  /\ statsPc' = "watching"
  /\ UNCHANGED <<issuesFound, issuesFixed, loopLeft, changesHandled, scanned, remedied>>
  /\ UNCHANGED nonStatsVars

\* onDOMChange for one element of elementsToScan: scanner.scan(element) returns
OnDOMChangeScanReturns ==
  /\ statsPc = "watching"
  /\ changesHandled < MaxChanges
  /\ changesHandled' = changesHandled + 1
  /\ \E found \in 0..MaxFound :
       /\ scanned' = scanned + found
       /\ loopLeft' = found
  /\ statsPc' = "changeLoop"
  /\ UNCHANGED <<issuesFound, issuesFixed, ariaAttributesAdded, logsAdded, remedied>>
  /\ UNCHANGED nonStatsVars

\* one turn of the loop of onDOMChange: the log transform returns is dropped
OnDOMChangeTransform ==
  /\ statsPc = "changeLoop"
  /\ loopLeft > 0
  /\ loopLeft' = loopLeft - 1
  /\ \E outcome \in {"log", "null"} :
       remedied' = IF outcome = "log" THEN remedied + 1 ELSE remedied
  /\ UNCHANGED <<issuesFound, issuesFixed, ariaAttributesAdded, logsAdded, statsPc,
                 changesHandled, scanned>>
  /\ UNCHANGED nonStatsVars

\* applyARIA(element) of onDOMChange: its count is dropped
OnDOMChangeSweep ==
  /\ statsPc = "changeLoop"
  /\ loopLeft = 0
  /\ statsPc' = "watching"
  /\ UNCHANGED <<issuesFound, issuesFixed, ariaAttributesAdded, logsAdded, loopLeft,
                 changesHandled, scanned, remedied>>
  /\ UNCHANGED nonStatsVars

\* this.stats of a new AURA
StatsInit ==
  /\ issuesFound = 0
  /\ issuesFixed = 0
  /\ ariaAttributesAdded = 0
  /\ logsAdded = 0
  /\ statsPc = "fresh"
  /\ loopLeft = 0
  /\ changesHandled = 0
  /\ scanned = 0
  /\ remedied = 0

NextStats ==
  \/ ScanAndTransformBegins
  \/ InitialScanReturns
  \/ InitialTransform
  \/ InitialSweep
  \/ OnDOMChangeScanReturns
  \/ OnDOMChangeTransform
  \/ OnDOMChangeSweep

\* ================================================================ specifications
NoCall == 0

\* new AccessibilityObserver(callback), before start()
ObsInit ==
  /\ observer = Null
  /\ isObserving = FALSE
  /\ mutationQueue = << >>
  /\ processingTimeout = Null
  /\ processingElements = {}
  /\ recentlyProcessed = {}
  /\ observed = NotObserved
  /\ debounce = -1
  /\ frames = << >>
  /\ decayTimers = << >>
  /\ passes = << >>
  /\ sinceAccept = DEBOUNCE_MS
  /\ accepted = << >>
  /\ flushedAccepted = << >>
  /\ lastFlushGap = DEBOUNCE_MS
  /\ burstDeliveries = 0
  /\ lastCall = NoCall
  /\ selfDelivered = FALSE
  /\ unhandled = FALSE
  /\ rawLen = 0
  /\ considered = 0

\* the page before anything is inserted into it: the watcher's runs
Init ==
  /\ ObsInit /\ EngInit("div", FALSE) /\ ScanInit(<< >>) /\ LogInit /\ AxeInit /\ FilterInit
  /\ StatsInit
  /\ BootInit("undefined", FALSE, FALSE) /\ AriaInit("card", "link", "link")

Next ==
  \/ Start
  \/ Stop
  \/ Pause
  \/ Resume
  \/ PageMutation
  \/ DebounceFire
  \/ FrameFire
  \/ DecayFire
  \/ PassStep
  \/ PassThrows
  \/ Tick

Spec == Init /\ [][Next]_vars


\* ------------------------------------------------------- oversized deliveries
CapRecords ==
  { ChildListRecord("body", <<"n1">>, "page"),
    ChildListRecord("n2", <<"t1">>, "page"),
    AttributeRecord("n1", "hidden", Null, "", "page") }

\* the record a burst repeats: one the filter accepts, one it rejects
PadRecords ==
  { AttributeRecord("n1", "hidden", Null, "", "page"),
    AttributeRecord("n1", "aria-expanded", Null, "true", "page") }

\* how many copies of one record precede the last records of a delivery
PadLengths ==
  {0, MAX_MUTATIONS_PER_BATCH - 1,
   MAX_MUTATIONS_PER_BATCH + (MAX_MUTATIONS_PER_BATCH \div 2) - 2}

RawMutations(pad, m, recs) ==
  [i \in 1..(m + Len(recs)) |->
     LET r == IF i <= m THEN pad ELSE recs[i - m]
     IN [r EXCEPT !.late = (i > MAX_MUTATIONS_PER_BATCH)]]

\* The host delivers the records of one burst of page changes, however many,
\* to a watcher that has only been started.
RawDelivery ==
  /\ observed.observing
  /\ rawLen = 0
  /\ \E pad \in PadRecords, m \in PadLengths, recs \in SeqsUpTo2(CapRecords) :
       LET mutations == Delivered(RawMutations(pad, m, recs)) IN
         /\ mutations # << >>
         /\ HandleMutations(mutations)
         /\ Len(mutationQueue') <= MaxQueue
         /\ rawLen' = Len(mutations)
         /\ considered' = Len(LimitBatch(mutations))
  /\ UNCHANGED <<observer, isObserving, observed, processingElements,
                 recentlyProcessed, frames, decayTimers, passes>>
  /\ UNCHANGED <<flushedAccepted, lastFlushGap, lastCall, unhandled>>
  /\ UNCHANGED nonCapVars

NextCap ==
  \/ Start
  \/ RawDelivery
  \/ DebounceFire
  \/ FrameFire
  \/ DecayFire
  \/ PassStep
  \/ Tick

SpecCap == Init /\ [][NextCap]_vars

\* the transform calls for one element, of any kind
InitEngine ==
  /\ ObsInit
  /\ \E k \in ElementKinds, key \in BOOLEAN : EngInit(k, key)
  /\ ScanInit(<< >>)
  /\ LogInit /\ AxeInit /\ FilterInit /\ StatsInit
  /\ BootInit("undefined", FALSE, FALSE)
  /\ AriaInit("card", "link", "link")

SpecEngine == InitEngine /\ [][NextEngine]_vars

\* the initial pass over a page, whatever its detectors find
InitScan ==
  /\ ObsInit
  /\ EngInit("div", FALSE)
  /\ \E found \in Detections : ScanInit(found)
  /\ LogInit /\ AxeInit /\ FilterInit /\ StatsInit
  /\ BootInit("undefined", FALSE, FALSE)
  /\ AriaInit("card", "link", "link")

SpecScan == InitScan /\ [][NextScan]_vars

\* the log of one page, under any sequence of additions and CLEAR_LOGS requests
SpecLog == Init /\ [][NextLog]_vars

\* the page loads of one tab, whatever is stored and whatever the page ships
InitAura ==
  /\ ObsInit /\ EngInit("div", FALSE) /\ ScanInit(<< >>) /\ LogInit /\ AxeInit /\ FilterInit
  /\ StatsInit
  /\ \E flag \in {"undefined", "true", "false"}, emphasis \in BOOLEAN,
        youtube \in BOOLEAN : BootInit(flag, emphasis, youtube)
  /\ AriaInit("card", "link", "link")

SpecAura == InitAura /\ [][NextAura]_vars

\* applyARIA over a subtree of any markup, applied again and again
InitAria ==
  /\ ObsInit /\ EngInit("div", FALSE) /\ ScanInit(<< >>) /\ LogInit /\ AxeInit /\ FilterInit
  /\ StatsInit
  /\ BootInit("undefined", FALSE, FALSE)
  /\ \E box \in BoxKinds, c1 \in LeafKinds, c2 \in {"link", "field"} :
       AriaInit(box, c1, c2)

SpecAria == InitAria /\ [][NextAria]_vars

\* the watcher, started and stopped, under a host that runs what is due: the
\* timers, the animation frames, and the settling of a suspended onDOMChange
NextLive ==
  \/ Start
  \/ Stop
  \/ PageMutation
  \/ DebounceFire
  \/ FrameFire
  \/ DecayFire
  \/ PassThrows
  \/ Tick

SpecLive ==
  /\ Init /\ [][NextLive]_vars
  /\ WF_vars(DebounceFire)
  /\ WF_vars(FrameFire)
  /\ WF_vars(DecayFire)
  /\ WF_vars(PassThrows)
  /\ WF_vars(Tick)

\* the watcher with batches that follow each other closely
NextBatches ==
  \/ Start
  \/ Stop
  \/ Pause
  \/ Resume
  \/ PageMutation
  \/ DebounceFire
  \/ FrameFireOverlapping
  \/ DecayFire
  \/ PassStep
  \/ PassThrows
  \/ Tick

SpecBatches == Init /\ [][NextBatches]_vars

\* handleMutations on every kind of record, right after start()
SpecFilter == Init /\ [][NextFilter]_vars

\* the scans of one page load: the whole-document one, then the watcher's
SpecAxe == Init /\ [][NextAxe]_vars



\* ======================================================= claims: the watcher

\* C3: the notifications accepted in deliveries that follow each other within
\* the debounce window wait in one queue; the queue is flushed only once
\* DEBOUNCE_MS have passed since the last accepted notification (the timer is
\* set anew at each acceptance), and the flush hands all of them to one
\* animation frame, whose callback invocation receives them as one batch.
DebounceOneBatch ==
  /\ mutationQueue = accepted
  /\ Len(frames) = Len(flushedAccepted)
  /\ \A k \in 1..Len(frames) : frames[k].batch = flushedAccepted[k]
  /\ lastFlushGap >= DEBOUNCE_MS
  /\ debounce >= 0 => debounce = DEBOUNCE_MS - sinceAccept

\* a callback invocation received the batch of two or more deliveries
BurstDispatchedOnce == lastCall >= 2

\* C4: no record caused by the pipeline's own attribute writes is ever accepted
\* into the queue or into a flushed batch, so the remediation pass alone never
\* arms the debounce timer or causes another callback invocation.
NoSelfFeedback ==
  /\ \A i \in 1..Len(mutationQueue) : mutationQueue[i].origin = "page"
  /\ \A k \in 1..Len(frames) :
       \A i \in 1..Len(frames[k].batch) : frames[k].batch[i].origin = "page"

\* records of the pipeline's writes were delivered and the watcher is at rest
SelfWritesFilteredOut ==
  /\ selfDelivered
  /\ mutationQueue = << >>
  /\ processingTimeout = Null
  /\ debounce = -1
  /\ frames = << >>

\* C5: every batch handed to the callback holds at most one notification per
\* target node, also across the deliveries of one debounce window.
BatchDedupedByTarget ==
  \A k \in 1..Len(frames) :
    \A i, j \in 1..Len(frames[k].batch) :
      i # j => frames[k].batch[i].target # frames[k].batch[j].target

\* C6: of one delivery at most MAX_MUTATIONS_PER_BATCH records are considered,
\* and no record delivered behind the first MAX_MUTATIONS_PER_BATCH reaches the
\* queue or a batch handed to the callback.
CapEnforced ==
  /\ considered <= MAX_MUTATIONS_PER_BATCH
  /\ \A i \in 1..Len(mutationQueue) : ~mutationQueue[i].late
  /\ \A k \in 1..Len(frames) :
       \A i \in 1..Len(frames[k].batch) : ~frames[k].batch[i].late

\* 150 records were delivered at once, 100 considered, and some were accepted
OversizedDeliveryCut ==
  /\ rawLen = MAX_MUTATIONS_PER_BATCH + (MAX_MUTATIONS_PER_BATCH \div 2)
  /\ considered = MAX_MUTATIONS_PER_BATCH
  /\ mutationQueue # << >>

\* C7: no error raised by the callback while it processes a batch escapes as
\* an unhandled error.
CallbackErrorsCaught == ~unhandled

\* C8: pause() only detaches the observer and clears the observing flag, and
\* resume() re-attaches with the options of start(); both leave the queue, the
\* debounce timer and the marker sets alone, and are no-ops when they do not
\* apply.
PauseResumeNonDestructive ==
  [][ /\ Pause =>
           /\ UNCHANGED <<observer, mutationQueue, processingTimeout, debounce,
                          processingElements, recentlyProcessed, frames,
                          decayTimers, passes>>
           /\ (observer # Null /\ isObserving) =>
                (observed' = NotObserved /\ ~isObserving')
           /\ ~(observer # Null /\ isObserving) => UNCHANGED <<observed, isObserving>>
      /\ Resume =>
           /\ UNCHANGED <<observer, mutationQueue, processingTimeout, debounce,
                          processingElements, recentlyProcessed, frames,
                          decayTimers, passes>>
           /\ (observer # Null /\ ~isObserving) =>
                (observed' = StartOptions /\ isObserving')
           /\ ~(observer # Null /\ ~isObserving) => UNCHANGED <<observed, isObserving>>
    ]_vars

\* paused with notifications still queued and their debounce timer pending
PausedWithPendingWork ==
  /\ observer # Null
  /\ ~isObserving
  /\ observed = NotObserved
  /\ mutationQueue # << >>
  /\ debounce >= 0

\* C24: from the flush of a batch until onDOMChange has finished with it, the
\* asynchronous part included, every target and every added element of the batch
\* is in processingElements.
BatchMarkedUntilPassEnds ==
  /\ \A i \in 1..Len(frames) : MarkedNodes(frames[i].batch) \subseteq processingElements
  /\ \A i \in 1..Len(passes) : passes[i].marked \subseteq processingElements

\* C25: at most one onDOMChange invocation is in progress at any time.
OnePassAtATime == Len(passes) <= 1

\* C26: when the frame of a batch has called the callback, whether it returned
\* or threw, every target and every added element of the batch is out of
\* processingElements and in recentlyProcessed; and processingElements empties
\* whenever it holds a node, so no node stays in it forever.
ClearedAndPromotedAfterCallback ==
  /\ [][ (frames # << >> /\ frames' = Tail(frames)) =>
          LET marked == MarkedNodes(Head(frames).batch) IN
            /\ marked \cap processingElements' = {}
            /\ marked \subseteq recentlyProcessed' ]_vars
  /\ (processingElements # {}) ~> (processingElements = {})

BatchPromoted ==
  /\ frames = << >>
  /\ processingElements = {}
  /\ recentlyProcessed = {"body", "n1"}
  /\ decayTimers # << >>
  /\ lastCall # NoCall

\* C27: a node promoted to recentlyProcessed by a flush stays in it until the
\* 200 ms counted from that promotion have elapsed, whatever other flushes do.
RecentForWholeInterval ==
  \A i \in 1..Len(decayTimers) :
    decayTimers[i].left > 0 => decayTimers[i].promoted \subseteq recentlyProcessed

\* the target carries none of the three marks the filter tests first
IsUnmarkedTarget(n) ==
  /\ n \notin processingElements
  /\ n \notin recentlyProcessed
  /\ ~(IsHTMLElement(n) /\ HasGeneratedAttr(n))

\* the record handleMutations was called with is in the queue
Enqueued(m) == \E i \in 1..Len(mutationQueue) : mutationQueue[i] = m

NamesOwnAttribute(m) ==
  \/ StartsWith(m.attributeName, "aria-")
  \/ m.attributeName = "role"
  \/ m.attributeName = "tabindex"

\* C28: a record of an aria-*, role or tabindex attribute that was added (no old
\* value, a new value) is never enqueued; one of a removal or a value change on
\* an unmarked target is enqueued.
OwnAdditionsNeverEnqueued ==
  \A i \in 1..Len(offered) :
    LET m == offered[i] IN
      (m.type = "attributes" /\ NamesOwnAttribute(m)) =>
        IF ~Truthy(m.oldValue) /\ Truthy(m.newValue)
        THEN ~Enqueued(m)
        ELSE IsUnmarkedTarget(m.target) => Enqueued(m)

\* C29 as stated: a class or style record on an unmarked target is enqueued
\* only if its old or its new value contains one of display, hidden, visible,
\* opacity, collapse, show.
ClassChangeNeedsKeyword ==
  \A i \in 1..Len(offered) :
    LET m == offered[i] IN
      (/\ m.type = "attributes"
       /\ m.attributeName \in {"class", "style"}
       /\ IsUnmarkedTarget(m.target)
       /\ Enqueued(m)) =>
        \E k \in {"display", "hidden", "visible", "opacity", "collapse", "show"} :
          \/ m.oldValue # Null /\ Includes(ToLowerCase(m.oldValue), k)
          \/ m.newValue # Null /\ Includes(ToLowerCase(m.newValue), k)

\* C29: a class or style record on an unmarked target is enqueued exactly when
\* it has no old value, or its old and new values differ and one of them
\* contains hide, show, visible, hidden, display, opacity or collapse.
ClassChangeAcceptedOnNullOrKeyword ==
  \A i \in 1..Len(offered) :
    LET m == offered[i] IN
      (/\ m.type = "attributes"
       /\ m.attributeName \in {"class", "style"}
       /\ IsUnmarkedTarget(m.target)) =>
        (Enqueued(m) <=>
           \/ m.oldValue = Null
           \/ /\ m.oldValue # m.newValue
              /\ \E k \in VisibilityKeywords :
                   \/ Includes(ToLowerCase(m.oldValue), k)
                   \/ m.newValue # Null /\ Includes(ToLowerCase(m.newValue), k))

FirstClassEnqueued ==
  /\ offered = <<AttributeRecord("n1", "class", Null, "btn", "page")>>
  /\ mutationQueue = offered

\* C30: the watcher observes character data, and a characterData record on an
\* unmarked target is enqueued exactly when the text went from empty to
\* non-empty.
TextChangesWatchedAndFiltered ==
  /\ (observer # Null /\ isObserving) => observed.characterData
  /\ \A i \in 1..Len(offered) :
       LET m == offered[i] IN
         (m.type = "characterData" /\ IsUnmarkedTarget(m.target)) =>
           (Enqueued(m) <=> (m.oldValue = "" /\ m.newValue # ""))

\* C34: when a batch is dispatched, a pass starts that takes up every element a
\* childList record of the batch added and the target of every attribute record
\* of the batch.
EveryRecordRescanned ==
  [][ (frames # << >> /\ frames' = Tail(frames)) =>
        LET batch == Head(frames).batch
            wanted == { batch[i].target :
                          i \in { j \in 1..Len(batch) : batch[j].type = "attributes" } }
                      \cup { n \in Elements : \E i \in 1..Len(batch) :
                               /\ batch[i].type = "childList"
                               /\ \E j \in 1..Len(batch[i].addedNodes) :
                                    batch[i].addedNodes[j] = n }
        IN wanted # {} =>
             /\ Len(passes') = Len(passes) + 1
             /\ wanted \subseteq { passes'[Len(passes')].todo[k] :
                                     k \in 1..Len(passes'[Len(passes')].todo) } ]_vars

\* ======================================================== claims: the engine

\* C1 (as stated): of two transform calls for the same element and type made
\* one after the other, the first returns a log and the second returns
\* nothing and changes no attribute and no listener, so that the two yield
\* exactly one log entry.
TwiceYieldsExactlyOneLog ==
  \A q \in pairs : q.first = "log" /\ ~q.secondLog /\ ~q.secondChanged

\* C1 (amended): of two transform calls for the same element and type made
\* one after the other, the two return at most one log between them, and when
\* the first returned without an exception in its handler (with a log or with
\* nothing) the second returns nothing and changes no attribute and no
\* listener, also after the page has taken an attribute off the element again.
SecondCallIsNoOp ==
  \A q \in pairs :
    /\ ~(q.first = "log" /\ q.secondLog)
    /\ q.first # "threw" => ~q.secondLog /\ ~q.secondChanged

\* a second call for a pair whose fix the page has undone in between
SecondCallAfterRevert ==
  \E q \in pairs : q.first = "log" /\ q.reverted /\ ~q.secondLog /\ ~q.secondChanged

\* C2: whatever the interleaving of the passes' transform calls, at most one
\* captioning request is issued for the element and at most one non-null log
\* is returned for each of its issue types.
AppliedAtMostOnce ==
  /\ captionRequests <= 1
  /\ \A t \in IssueTypes : logsReturned[t] <= 1

\* C15: once addAltText has assigned img.alt, whatever the value, a transform
\* call for the image that begins afterwards sends no captioning request and
\* returns no log, also after the page has taken the attribute off again.
NoCaptioningAfterAltWritten == ~requestAfterAlt /\ ~logAfterAlt

\* a call begun after the empty alt was written has returned
CallAfterEmptyAlt ==
  /\ lateCallDone
  /\ \E w \in altWrites : w.value = ""
  /\ elem = "imgNumeric"

FallsBackToFilename ==
  /\ \A w \in altWrites :
       w.cause \in {"nokey", "failed"} =>
         /\ elem = "img" => w.value = "hero shot"
         /\ elem = "imgNumeric" => w.value = ""
         /\ attrs["alt"] # Null \/ reverts > 0
  /\ lastDone[MISSING_ALT_TEXT] # "threw"
  /\ altWriteCount = logsReturned[MISSING_ALT_TEXT]

\* captioning failed for the picture with the all-digit file name, and the
\* call has returned
NumericNameAfterFailure ==
  /\ elem = "imgNumeric"
  /\ [cause |-> "failed", value |-> ""] \in altWrites
  /\ \E e \in visionEnds : e.text = ""
  /\ lastDone[MISSING_ALT_TEXT] = "log"

\* C21: once makeButtonAccessible has run for a div with an onclick attribute,
\* no role and the text "Buy Now" (or "Go"), the element has role=button,
\* tabindex=0 and, as aria-label, its text, unless the page took the attribute
\* off again; the engine has added exactly one keydown listener to it, whatever
\* the order and number of its calls; the title it shipped with is kept.
ClickableDivBecomesButton ==
  (elem \in {"div", "divBuy"} /\ NON_SEMANTIC_BUTTON \in transformedElements) =>
    /\ keydownListeners = 1
    /\ reverts = 0 =>
         /\ attrs["role"] = "button"
         /\ attrs["tabindex"] = "0"
         /\ attrs["aria-label"] = (IF elem = "divBuy" THEN "Buy Now" ELSE "Go")
         /\ attrs["title"] = (IF elem = "divBuy" THEN "Checkout" ELSE Null)
         /\ attrs["aria-labelledby"] = Null

\* both issues the scan reports for the "Buy Now" div have been remediated,
\* the keyboard issue first
BuyNowRemediated ==
  /\ elem = "divBuy"
  /\ transformedElements = {NON_SEMANTIC_BUTTON, MISSING_KEYBOARD_ACCESS}
  /\ logsReturned[MISSING_KEYBOARD_ACCESS] = 1
  /\ logsReturned[NON_SEMANTIC_BUTTON] = 1
  /\ attrs["aria-label"] = "Buy Now"

\* C22: an element for which a transform call has returned a log, i.e. to which
\* a fix was applied, has the data-web-ally-generated attribute that the
\* filter of handleMutations tests.
FixedElementIsStamped ==
  (\E t \in IssueTypes : logsReturned[t] > 0) =>
    hasAttribute(attrs, "data-web-ally-generated")

\* C32: whatever the order and number of the non-semantic-button and
\* missing-keyboard-access remediations of an element, it has at most one
\* keydown listener of the engine; once both have run, role, tabindex and the
\* listener are all there, each written once.
OneKeydownHandlerEitherOrder ==
  /\ keydownListeners <= 1
  /\ (/\ elem \in {"div", "divBuy"}
      /\ {NON_SEMANTIC_BUTTON, MISSING_KEYBOARD_ACCESS} \subseteq transformedElements
      /\ reverts = 0) =>
       /\ keydownListeners = 1
       /\ keyboardHandlers
       /\ attrs["role"] = "button"
       /\ attrs["tabindex"] = "0"

KeyboardStepFoundNothingLeft ==
  /\ elem = "div"
  /\ {NON_SEMANTIC_BUTTON, MISSING_KEYBOARD_ACCESS} \subseteq transformedElements
  /\ logsReturned[NON_SEMANTIC_BUTTON] = 1
  /\ logsReturned[MISSING_KEYBOARD_ACCESS] = 0
  /\ keydownListeners = 1

\* ======================================================= claims: the scanner

\* C9: within the pass of scanAndTransform, when the remediation of an issue
\* begins, the remediation of every issue of the pass with a smaller priority
\* value (P0 before P1 and P2, P1 before P2) has completed.
RemediatedInPriorityOrder ==
  \A b \in 1..Len(began) :
    \A j \in 1..Len(issues) :
      issues[j].priority < issues[began[b].issue].priority => j \in began[b].done

\* a P2 issue detected first is taken up after a P0 and a P1 issue have settled
LowPriorityTakenUpLast ==
  /\ Len(detected) > 0
  /\ detected[1].priority = P2
  /\ \E b \in 1..Len(began) :
       /\ issues[began[b].issue].priority = P2
       /\ \E i \in began[b].done, j \in began[b].done :
            issues[i].priority = P0 /\ issues[j].priority = P1

\* C10: the list DOMScanner.scan returns holds the deduplicated issues, is
\* non-decreasing in priority value, and keeps issues of equal priority in the
\* order in which they were detected.
ScanSortedAndStable ==
  pc # "scan" =>
    /\ Len(issues) = Len(deduplicateIssues(detected))
    /\ {issues[i] : i \in 1..Len(issues)}
         = {deduplicateIssues(detected)[i] : i \in 1..Len(issues)}
    /\ \A i \in 1..Len(issues) : \A j \in (i + 1)..Len(issues) :
         /\ issues[i].priority <= issues[j].priority
         /\ issues[i].priority = issues[j].priority => issues[i].id < issues[j].id

\* a scan whose sort moved an issue past two issues of equal priority
SortMovedPastEqualPair ==
  /\ pc # "scan"
  /\ Len(issues) >= 3
  /\ issues # deduplicateIssues(detected)
  /\ \E i \in 1..(Len(issues) - 1) : issues[i].priority = issues[i + 1].priority

\* C11: the list one DOMScanner.scan call returns never holds two issues with
\* the same (element, type) pair, and the issue it holds for a pair is the
\* first one detected for that pair.
OneIssuePerElementAndType ==
  pc # "scan" =>
    /\ \A i \in 1..Len(issues) : \A j \in 1..Len(issues) :
         (issues[i].element = issues[j].element /\ issues[i].type = issues[j].type)
           => i = j
    /\ \A i \in 1..Len(issues) : \A d \in 1..Len(detected) :
         (detected[d].element = issues[i].element /\ detected[d].type = issues[i].type)
           => issues[i].id <= d
    /\ \A d \in 1..Len(detected) : \E i \in 1..Len(issues) :
         detected[d].element = issues[i].element /\ detected[d].type = issues[i].type

\* a scan in which two detectors reported the same pair with different priority
SamePairDetectedTwice ==
  /\ pc # "scan"
  /\ \E d \in 1..Len(detected) : \E e \in (d + 1)..Len(detected) :
       /\ detected[d].element = detected[e].element
       /\ detected[d].type = detected[e].type
       /\ detected[d].priority > detected[e].priority
  /\ Len(issues) >= 2

\* C23: the validator runs once for the whole-document scan and for no scan
\* that onDOMChange starts.
ValidatorOnlyForTopLevelScan ==
  \A i \in 1..Len(scanCalls) :
    scanCalls[i].axe <=> scanCalls[i].caller = "scanAndTransform"

\* C33: what a scan returns depends on the DOM of its subtree alone, whether or
\* not another scan call is in flight while it runs.
ScanDependsOnDomOnly ==
  \A i \in 1..Len(scanCalls) :
    scanCalls[i].at = "returned" =>
      scanCalls[i].issues = IssuesOfSubtree(scanCalls[i].root,
                              IF scanCalls[i].connected THEN {scanCalls[i].root} ELSE {})

\* ==================================================== claims: the coordinator

\* C18: when the handler of an issue throws, transform gives nothing for it
\* and does not record its (element, type), the issues behind it in the pass
\* are still handed to transform, and the pass reaches applyARIA with every
\* issue settled.
FailureDoesNotEndThePass ==
  /\ \A r \in 1..Len(results) :
       LET issue == issues[results[r].issue] IN
         /\ results[r].issue = r
         /\ (issue.element = "n2" /\ issue.type = UNLABELED_FORM_ELEMENT) =>
              /\ results[r].out = "threw"
              /\ <<issue.element, issue.type>> \notin processedPairs
         /\ results[r].out = "log" => <<issue.element, issue.type>> \in processedPairs
  /\ pc = "applied" => Len(results) = Len(issues) /\ done = 1..Len(issues)

\* the handler of the first issue threw and a later issue of the pass was fixed
FixedAfterAFailure ==
  /\ pc = "applied"
  /\ Len(results) >= 3
  /\ results[1].out = "threw"
  /\ results[3].out = "log"

\* C12: after any sequence of log additions and CLEAR_LOGS requests the log
\* holds at most 50 entries, and these are the most recent ones added since
\* the last clearing, newest first: an addition past 50 evicts the oldest.
LogHoldsNewestFifty ==
  /\ Len(logs) <= MAX_LOGS
  /\ Len(logs) = Min(MAX_LOGS, logged - loggedAtClear)
  /\ \A i \in 1..Len(logs) : logs[i] = logged - i + 1

\* a log that was cleared and has since evicted an entry
EvictedAfterClear ==
  /\ loggedAtClear > 0
  /\ logged - loggedAtClear > MAX_LOGS
  /\ Len(logs) = MAX_LOGS

\* C13: the persisted flag is read once per page load; when it was read as
\* false, no node or text replacement, no scan, no remediation, no ARIA sweep
\* and no watcher start ever happens on that page.  Whenever the persisted
\* flag changes (TOGGLE_ENABLED), it becomes the inverse of the instance's
\* flag, a reload is requested, and nothing is started or stopped in the
\* running page.
DisabledPageStaysInert ==
  /\ [](flagAtLoad = "false" =>
          /\ phase = "disabled"
          /\ ~enabled
          /\ initAttempts = 0
          /\ ~nodesReplaced /\ ~textChanged
          /\ ~didScan /\ ~didRemediate /\ ~didSweep
          /\ observer = Null /\ ~isObserving /\ observed = NotObserved)
  /\ [][/\ (flagAtLoad # "unread" /\ flagAtLoad' # "unread") => flagAtLoad' = flagAtLoad
        /\ stored' # stored =>
             /\ stored' = (IF enabled THEN "false" ELSE "true")
             /\ reloadPending'
             /\ UNCHANGED <<observer, observed, isObserving, phase, enabled,
                            initialized, didScan, didRemediate, didSweep,
                            initAttempts>>]_vars

\* a page that was switched off, reloaded, and asked to toggle again
DisabledInstanceAnswersToggle ==
  /\ loads = 2
  /\ flagAtLoad = "false"
  /\ phase = "disabled"
  /\ reloadPending
  /\ stored = "true"

\* C14: when the initial scan-and-remediate or the watcher setup throws during
\* initialize(), the watcher is not observing, the instance stays
\* uninitialized, and initialize() is not entered again on that page.
FailedInitializationStaysInert ==
  /\ initAttempts <= 1
  /\ initFailed =>
       /\ phase = "inert"
       /\ ~initialized
       /\ ~isObserving
       /\ observed = NotObserved

\* observe() threw after the scan, the remediation and the sweep had run
WatcherSetupThrew ==
  /\ initFailed
  /\ didSweep
  /\ observer = "MutationObserver"

\* C20: no step of the script inserts, removes or replaces a node of the page
\* or changes the text of one.
NoStructuralChange == ~nodesReplaced /\ ~textChanged

\* ================================================== claims: the ARIA manager

\* C19: an applyARIA call on a subtree the page has not changed since the call
\* before it adds no attribute and returns 0.
SecondApplicationAddsNothing ==
  \A i \in 2..Len(sweeps) :
    sweeps[i].untouched => sweeps[i].count = 0 /\ sweeps[i].added = {}

\* C31: no applyARIA call changes the value of an attribute that is already
\* on an element.
ExistingValuesKept == \A i \in 1..Len(sweeps) : sweeps[i].changed = {}

\* the statistics of one page load: the initial pass, then the watcher's passes
SpecStats == Init /\ [][NextStats]_vars

\* ---------------------------------------------------------------------------
\* C35: the statistics are cumulative over the page's lifetime: issuesFound is
\* the number of issues every scan so far has returned, every transform that
\* returned a log has added a log entry and one to issuesFixed, and issuesFixed
\* never exceeds issuesFound.
StatisticsCumulative ==
  /\ issuesFound = scanned
  /\ issuesFixed >= remedied
  /\ logsAdded >= remedied
  /\ issuesFixed <= issuesFound

TimerPendingIffQueued ==
  /\ []((debounce >= 0) <=> (mutationQueue # << >>))
  /\ []((processingTimeout # Null) <=> (mutationQueue # << >>))
  /\ [][ /\ debounce' > debounce => Len(mutationQueue') > Len(mutationQueue)
         /\ (mutationQueue' = mutationQueue /\ debounce' # debounce) =>
              (debounce > 0 /\ debounce' = debounce - TickMs) ]_vars

\* paused while two accepted notifications wait for the debounce timer
TimerKeptAcrossPause ==
  /\ observer # Null
  /\ ~isObserving
  /\ Len(mutationQueue) = 2
  /\ debounce = DEBOUNCE_MS - TickMs
  /\ processingTimeout = "timer"

\* ---------------------------------------------------------------------------
\* C38: from stop() until the next start() the queue is empty, no debounce
\* timer is pending and the callback is not invoked: no animation frame of a
\* batch flushed before the stop runs the callback.
NothingDeliveredAfterStop ==
  /\ [](observer = Null => (mutationQueue = << >> /\ debounce < 0))
  /\ [][ (frames # << >> /\ frames' = Tail(frames)) => observer # Null ]_vars

\* ---------------------------------------------------------------------------
\* C39: between pause() and the following resume() nothing is added to the
\* queue and the callback is not invoked, whatever was queued before the pause.
SuppressedWhilePaused ==
  [][ (observer # Null /\ ~isObserving) =>
        /\ Len(mutationQueue') <= Len(mutationQueue)
        /\ ~(frames # << >> /\ frames' = Tail(frames)) ]_vars

====
